---- MODULE Spec2Model ----
(***************************************************************************)
(* Model of the streaming extraction engine, core.extract_file, and of the *)
(* rule set it consumes (rules.Rules, rules.BlockRule).                    *)
(*                                                                         *)
(* A line of text is a sequence of one-character strings, without its line *)
(* terminator.  A pattern is a sequence of characters too.  In Literal     *)
(* mode a pattern is a raw substring; in Pattern mode the model covers the *)
(* regular expressions built from plain characters, from ".", which       *)
(* matches any one character of a line, and from "(", which opens a group  *)
(* that nothing closes: re.compile rejects a pattern holding one.          *)
(*                                                                         *)
(* The input file is a record [head, filler, repeat, tail]: the lines of   *)
(* head, then repeat copies of the line filler, then the lines of tail.    *)
(* NumLines and LineAt read it; a short file is all head.                  *)
(*                                                                         *)
(* One call of extract_file is a process with program counter pc:          *)
(*   "start"  the call has been made, nothing has run yet                  *)
(*   "poll"   at the head of the for loop, about to fetch the next line    *)
(*   "body"   a line has been fetched and the cancellation poll has passed *)
(*   "done"   the call has returned                                        *)
(*   "cli"    the command line is being read, no call has been made yet    *)
(*   "raised" the call has raised an exception to its caller               *)
(* The caller's thread may set cancel_event between any two of the         *)
(* engine's steps; the engine reads it only in the poll.                   *)
(***************************************************************************)
EXTENDS Integers, Sequences, FiniteSets, TLC

VARIABLES
    rules,               \* the Rules object passed to the call
    include_separators,  \* keyword argument include_separators
    progress_cb,         \* TRUE iff a progress callback was supplied
    fin,                 \* the input file
    output_path,         \* argument output_path: None, or the path to write to
    cancel_event,        \* threading.Event shared with the caller
    pc,                  \* position of the call
    line_no,             \* local line_no (also: number of lines fetched)
    active,              \* local active: one countdown per block rule
    out,                 \* everything written through emit(), in order
    cb,                  \* the calls made to progress_cb, in order
    decided,             \* history: number of loop bodies completed
    cancel_at,           \* history: value of decided and of pc when the
                         \* flag was set, <<>> while it is clear
    error,               \* the exception the call raised, "" if none
    handles,             \* state of the file objects fin and fout; fout is
                         \* "none" when the call was given no output path
    peer,                \* the frame of the other call of extract_file,
                         \* where two calls are made: the one not executing
                         \* (two threads), or the one that has returned (a
                         \* call made twice)
    status,              \* the front-end that runs the call: its widgets,
                         \* lists, queued signals and counts of runs
    result,              \* what the call returned to its caller
    argv                 \* the command line given to cli.main

vars == <<rules, include_separators, progress_cb, fin, output_path, cancel_event, pc,
          line_no, active, out, cb, decided, cancel_at, error, handles, peer,
          status, result, argv>>

----------------------------------------------------------------------------
(* Bounds of the model *)

MaxLines == 4
MaxAfter == 2

(* Program constants *)

ProgressEvery == 5000

----------------------------------------------------------------------------
(* Python builtins used by the engine *)

max(a, b) == IF a >= b THEN a ELSE b

(* str.__contains__: p in line *)
Contains(line, p) ==
    \E s \in 0..(Len(line) - Len(p)) :
        \A j \in 1..Len(p) : line[s + j] = p[j]

(* re.compile(p).search(line) is not None, for p made of plain characters  *)
(* and of ".", which matches any single character                          *)
RegexSearch(line, p) ==
    \E s \in 0..(Len(line) - Len(p)) :
        \A j \in 1..Len(p) : p[j] = "." \/ line[s + j] = p[j]

----------------------------------------------------------------------------
(* The input file *)

File(head, filler, repeat, tail) ==
    [head |-> head, filler |-> filler, repeat |-> repeat, tail |-> tail]

NumLines(f) == Len(f.head) + f.repeat + Len(f.tail)

LineAt(f, i) ==
    IF i <= Len(f.head) THEN f.head[i]
    ELSE IF i <= Len(f.head) + f.repeat THEN f.filler
    ELSE f.tail[i - Len(f.head) - f.repeat]

----------------------------------------------------------------------------
(* core.py *)

(* An absent value (None) is the empty set, a present value v is {v}. *)
None == {}

compile_patterns(patterns, regex) ==
    IF ~regex
    THEN [literals |-> {patterns}, regexes |-> None]
    ELSE [literals |-> None, regexes |-> {patterns}]

(* variant of matches: only the first pattern of the list is tried *)
matches_first(line, literals, regexes) ==
    IF literals # None
    THEN \E ps \in literals : ps # <<>> /\ Contains(line, ps[1])
    ELSE \E ps \in regexes : ps # <<>> /\ RegexSearch(line, ps[1])

matches(line, literals, regexes) ==
    IF literals # None
    THEN \E ps \in literals : \E j \in 1..Len(ps) : Contains(line, ps[j])
    ELSE \E ps \in regexes : \E j \in 1..Len(ps) : RegexSearch(line, ps[j])

(* variant of hit_idxs: the scan stops at the first trigger that matches *)
hit_idxs_first(line, trig_literals, trig_regexes) ==
    LET all == IF trig_literals # None
               THEN UNION {{i \in 1..Len(ts) : Contains(line, ts[i])} : ts \in trig_literals}
               ELSE UNION {{i \in 1..Len(ts) : RegexSearch(line, ts[i])} : ts \in trig_regexes}
    IN  {i \in all : \A j \in all : i <= j}

(* the two list comprehensions computing hit_idxs *)
hit_idxs(line, trig_literals, trig_regexes) ==
    IF trig_literals # None
    THEN UNION {{i \in 1..Len(ts) : Contains(line, ts[i])} : ts \in trig_literals}
    ELSE UNION {{i \in 1..Len(ts) : RegexSearch(line, ts[i])} : ts \in trig_regexes}

(* variant of Retrigger: a hit adds after to what is left of the window *)
RetriggerAdd(cur, after) == cur + max(0, after)

(* variant of Retrigger: the countdown is set to after *)
RetriggerAssign(cur, after) == after

(* variant of Retrigger: min written for max *)
RetriggerMin(cur, after) == IF cur <= after THEN cur ELSE after

(* active[i] = max(active[i], after_by_idx[i]) *)
Retrigger(cur, after) == max(cur, after)

(* variant of Decay: only the first open window is lowered, the windows of *)
(* the other rules wait for it to close                                    *)
DecayFirstOpen(act) ==
    [i \in 1..Len(act) |->
        IF act[i] > 0 /\ \A j \in 1..(i - 1) : act[j] = 0
        THEN act[i] - 1 ELSE act[i]]

(* active = [max(0, x - 1) for x in active] *)
Decay(act) == [i \in 1..Len(act) |-> max(0, act[i] - 1)]

(* variant of AnyActive: >= written for > *)
AnyActiveInclusive(act) == \E i \in 1..Len(act) : act[i] >= 0

(* any(x > 0 for x in active) *)
AnyActive(act) == \E i \in 1..Len(act) : act[i] > 0

(* the text of the separator: the two adjacent string literals of line    *)
(* 98-102, cut at the two formatted numbers                                *)
SeparatorText(n, k) ==
    <<"\n", "----- BLOCK TRIGGER @ line ", ToString(n), " (matched ",
      ToString(k), " rule(s)) -----\n">>

(* variant of Separator: the line number is counted from 0 *)
SeparatorZeroBased(n, k) ==
    [kind |-> "sep", text |-> SeparatorText(n - 1, k), line_no |-> n - 1,
     matched |-> k]

(* the separator written before a triggering line *)
Separator(n, k) ==
    [kind |-> "sep", text |-> SeparatorText(n, k), line_no |-> n, matched |-> k]

(* a line written verbatim *)
Verbatim(line) == [kind |-> "line", text |-> line, line_no |-> 0, matched |-> 0]

(* variant of IncludeKeeps: the include test is skipped when block rules   *)
(* are configured                                                          *)
IncludeKeepsOnlyWithoutBlocks(rs, line) ==
    LET inc == compile_patterns(rs.include, rs.regex)
    IN  rs.blocks = <<>> /\ rs.include # <<>> /\ matches(line, inc.literals, inc.regexes)

(* A) Include rules: the value of print_this after the include test *)
IncludeKeeps(rs, line) ==
    LET inc == compile_patterns(rs.include, rs.regex)
    IN  rs.include # <<>> /\ matches(line, inc.literals, inc.regexes)

(* variant of Hits: the triggers are matched as raw substrings whatever    *)
(* the mode of the rule set                                                *)
HitsLiteral(rs, line) ==
    LET triggers == [i \in 1..Len(rs.blocks) |-> rs.blocks[i].trigger]
        trig     == compile_patterns(triggers, FALSE)
    IN  hit_idxs(line, trig.literals, trig.regexes)

(* the hits of one line against the triggers of the rule set *)
Hits(rs, line) ==
    LET triggers == [i \in 1..Len(rs.blocks) |-> rs.blocks[i].trigger]
        trig     == compile_patterns(triggers, rs.regex)
    IN  hit_idxs(line, trig.literals, trig.regexes)

(* variant of BlockActive: on a line that hits a trigger the countdowns of *)
(* the rules it does not hit are lowered by one                            *)
BlockActiveDecayOthers(rs, act, line) ==
    LET hits == Hits(rs, line)
    IN  IF rs.blocks = <<>> THEN act
        ELSE IF hits # {}
        THEN [i \in 1..Len(act) |->
                 IF i \in hits THEN Retrigger(act[i], rs.blocks[i].after)
                 ELSE max(0, act[i] - 1)]
        ELSE IF AnyActive(act) THEN Decay(act)
        ELSE act

(* B) Block rules: the countdowns after the line *)
BlockActive(rs, act, line) ==
    LET hits == Hits(rs, line)
    IN  IF rs.blocks = <<>> THEN act
        ELSE IF hits # {}
        THEN [i \in 1..Len(act) |->
                 IF i \in hits THEN Retrigger(act[i], rs.blocks[i].after)
                 ELSE act[i]]
        ELSE IF AnyActive(act) THEN Decay(act)
        ELSE act

(* B) Block rules: whether the block rules set print_this *)
BlockKeeps(rs, act, line) ==
    rs.blocks # <<>> /\ (Hits(rs, line) # {} \/ AnyActive(act))

(* variant of Emitted: the line is written once by the include rules and  *)
(* once more by the block rules                                            *)
EmittedPerReason(rs, sep, act, line, n) ==
    LET hits == Hits(rs, line)
    IN  (IF rs.blocks # <<>> /\ hits # {} /\ sep
         THEN <<Separator(n, Cardinality(hits))>> ELSE <<>>)
        \o
        (IF IncludeKeeps(rs, line) THEN <<Verbatim(line)>> ELSE <<>>)
        \o
        (IF BlockKeeps(rs, act, line) THEN <<Verbatim(line)>> ELSE <<>>)

(* what one loop body writes: the separator, if any, then the line, if kept *)
Emitted(rs, sep, act, line, n) ==
    LET hits == Hits(rs, line)
    IN  (IF rs.blocks # <<>> /\ hits # {} /\ sep
         THEN <<Separator(n, Cardinality(hits))>> ELSE <<>>)
        \o
        (IF IncludeKeeps(rs, line) \/ BlockKeeps(rs, act, line)
         THEN <<Verbatim(line)>> ELSE <<>>)

(* variant of Progress: the test reads the line number as it was before   *)
(* the increment                                                           *)
ProgressBeforeIncrement(has_cb, n, written) ==
    IF has_cb /\ (n - 1) % ProgressEvery = 0
    THEN <<[n |-> n, finished |-> FALSE, written |-> written]>>
    ELSE <<>>

(* the progress call closing a loop body, if any *)
Progress(has_cb, n, written) ==
    IF has_cb /\ n % ProgressEvery = 0
    THEN <<[n |-> n, finished |-> FALSE, written |-> written]>>
    ELSE <<>>

(* variant of FinalProgress: the final call is skipped when the last line  *)
(* has just been reported by the loop                                      *)
FinalProgressUnlessReported(has_cb, n, written) ==
    IF has_cb /\ ~(n > 0 /\ n % ProgressEvery = 0)
    THEN <<[n |-> n, finished |-> TRUE, written |-> written]>>
    ELSE <<>>

(* the progress call after the loop, if any *)
FinalProgress(has_cb, n, written) ==
    IF has_cb
    THEN <<[n |-> n, finished |-> TRUE, written |-> written]>>
    ELSE <<>>

----------------------------------------------------------------------------
(* The calls the model explores *)

ln_a == <<"a">>
ln_b == <<"b">>
ln_x == <<"x">>
ln_ab == <<"a", "b">>
ln_dot == <<".">>
ln_paren == <<"(">>

Block(t, n) == [trigger |-> t, after |-> n]
Rules(inc, blocks, regex) == [include |-> inc, blocks |-> blocks, regex |-> regex]

Afters == 0..MaxAfter

BlockLists ==
    {<<>>}
    \cup {<<Block(ln_a, n)>> : n \in Afters \cup {-1}}
    \cup {<<Block(ln_a, n), Block(ln_b, m)>> : n \in Afters, m \in Afters}

LiteralRules == {Rules(inc, bl, FALSE) : inc \in {<<>>, <<ln_x>>}, bl \in BlockLists}

RegexRules ==
    {Rules(<<>>, <<Block(ln_dot, 1)>>, TRUE),
     Rules(<<ln_dot>>, <<>>, TRUE),
     Rules(<<ln_a>>, <<Block(ln_b, 1), Block(ln_dot, 0)>>, TRUE)}

(* rule sets holding a pattern that is no regular expression *)
ParenRules ==
    {Rules(<<ln_a>>, <<Block(ln_paren, 1)>>, TRUE),
     Rules(<<ln_paren>>, <<Block(ln_a, 1)>>, TRUE),
     Rules(<<ln_paren>>, <<Block(ln_paren, 1)>>, FALSE)}

(* rule sets with several include patterns and several triggers that can   *)
(* match one line, in both orders, and one with a negative after next to a *)
(* positive one                                                            *)
MultiRules ==
    {Rules(<<ln_a, ln_ab>>, <<Block(ln_a, 1), Block(ln_b, MaxAfter)>>, FALSE),
     Rules(<<ln_ab, ln_a>>, <<Block(ln_b, MaxAfter), Block(ln_a, 1)>>, FALSE),
     Rules(<<ln_x, ln_b>>, <<Block(ln_a, MaxAfter), Block(ln_b, 0)>>, FALSE),
     Rules(<<>>, <<Block(ln_a, -1), Block(ln_b, 1)>>, FALSE)}

(* Literal-mode rule sets whose patterns hold a regex metacharacter *)
MetaRules ==
    {Rules(<<ln_dot>>, <<>>, FALSE),
     Rules(<<ln_a>>, <<Block(ln_dot, 0)>>, FALSE)}

RuleSets == LiteralRules \cup RegexRules \cup ParenRules \cup MultiRules \cup MetaRules

RECURSIVE SeqsUpTo(_, _)
SeqsUpTo(S, n) ==
    IF n = 0 THEN {<<>>}
    ELSE LET shorter == SeqsUpTo(S, n - 1)
         IN  shorter \cup {Append(s, e) : s \in {t \in shorter : Len(t) = n - 1}, e \in S}

Inputs ==
    SeqsUpTo({ln_a, ln_b, ln_x}, MaxLines)
    \cup {<<ln_ab, ln_x, ln_x>>, <<ln_a, ln_ab, ln_x, ln_x>>, <<ln_dot, ln_x>>,
          <<ln_paren, ln_x>>}

(* the scenarios of the specification, as written there *)
ln_A == <<"A">>
ln_B == <<"B">>
ln_T == <<"T">>
ln_y == <<"y">>
ln_z == <<"z">>
ln_w == <<"w">>
TRIGGER == <<"T", "R", "I", "G", "G", "E", "R">>

ShortFile(ls) == File(ls, ln_x, 0, <<>>)

ScenarioInput == ShortFile(<<ln_A, TRIGGER, ln_x, ln_y, ln_z, ln_B>>)
ScenarioBlockOnly == Rules(<<>>, <<Block(TRIGGER, 2)>>, FALSE)
ScenarioWithInclude == Rules(<<ln_A>>, <<Block(TRIGGER, 2)>>, FALSE)
ScenarioRetriggerInput == ShortFile(<<ln_T, ln_T, ln_z, ln_w>>)
ScenarioRetrigger == Rules(<<>>, <<Block(ln_T, 1)>>, FALSE)

ScenarioCalls ==
    {[rules |-> ScenarioBlockOnly, fin |-> ScenarioInput],
     [rules |-> ScenarioWithInclude, fin |-> ScenarioInput],
     [rules |-> ScenarioRetrigger, fin |-> ScenarioRetriggerInput]}

Calls ==
    {[rules |-> r, fin |-> ShortFile(ls)] : r \in RuleSets, ls \in Inputs}
    \cup ScenarioCalls

(* an output path; no path (None, or the empty string, which "if          *)
(* output_path" takes the same way) is the empty set                       *)
OutPath == {"out.txt"}

CallFlags ==
    {[sep |-> FALSE, cb |-> TRUE, output |-> OutPath],
     [sep |-> TRUE, cb |-> TRUE, output |-> OutPath],
     [sep |-> FALSE, cb |-> FALSE, output |-> OutPath],
     [sep |-> FALSE, cb |-> TRUE, output |-> {}]}

----------------------------------------------------------------------------
(* The state machine of one call *)

(* the arguments of the call, which it never assigns *)
args == <<rules, include_separators, progress_cb, fin, output_path>>

(* what lies outside the call: a second call, and the front-end *)
outside == <<peer, status, argv>>

Unopened == [fin |-> "unopened", fout |-> "unopened"]
(* lines 47-52: fin is opened, and fout when a path is given; without one  *)
(* fout is None and emit prints to the standard output                     *)
Opened(path) ==
    [fin |-> "open", fout |-> IF path = {} THEN "none" ELSE "open"]

(* the finally clause, lines 115-118: fin.close(), and fout.close() if     *)
(* there is an output file                                                 *)
Closed(h) ==
    [fin |-> "closed", fout |-> IF h.fout = "open" THEN "closed" ELSE h.fout]

(* fout.close() raises: the output file holds data written and not yet     *)
(* flushed, which the device refuses (line 118)                            *)
CloseCanFail(o) == handles.fout = "open" /\ o # <<>>

(* the exception that leaves the call when e is raised inside the try      *)
(* block: the finally clause runs, and an exception of fout.close() takes  *)
(* the place of e                                                          *)
Leaves(e, o) == {e} \cup (IF CloseCanFail(o) THEN {"OSError(close)"} ELSE {})

(* the exception that leaves the call when a write raises in emit (line    *)
(* 56): the data the device refused stay in the buffer of fout, whatever   *)
(* was written before, so fout.close() in the finally clause raises too    *)
(* and its exception takes the place of the write's; when the buffer has   *)
(* nothing left to flush, or emit printed to the standard output, the      *)
(* write's exception leaves                                                *)
WriteLeaves ==
    {"OSError(write)"} \cup (IF handles.fout = "open" THEN {"OSError(close)"} ELSE {})

NoPeer ==
    [pc |-> "absent", fin |-> File(<<>>, <<>>, 0, <<>>), output_path |-> {},
     line_no |-> 0, active |-> <<>>, out |-> <<>>, cb |-> <<>>, decided |-> 0,
     error |-> "", handles |-> [fin |-> "unopened", fout |-> "unopened"],
     result |-> {"pending"}]

(* no front-end: extract_file called as a function *)
NoStatus == [front |-> "", running |-> FALSE, text |-> <<>>, box |-> <<>>]

(* re.compile(p) succeeds *)
ValidRegex(p) == \A j \in 1..Len(p) : p[j] # "("

(* one of the two _compile_patterns calls raises re.error *)
CompileFails(rs) ==
    /\ rs.regex
    /\ \/ \E j \in 1..Len(rs.include) : ~ValidRegex(rs.include[j])
       \/ \E i \in 1..Len(rs.blocks) : ~ValidRegex(rs.blocks[i].trigger)

(* the call has not returned *)
Pending == {"pending"}

(* no command line: extract_file is called by another caller than cli.main *)
NoArgv == [input |-> <<>>]

(* the state of a call that has just been made *)
Called ==
    /\ cancel_event = FALSE
    /\ pc = "start"
    /\ line_no = 0
    /\ active = <<>>
    /\ out = <<>>
    /\ cb = <<>>
    /\ decided = 0
    /\ cancel_at = <<>>
    /\ error = ""
    /\ handles = Unopened
    /\ result = Pending

Init ==
    /\ \E c \in Calls : rules = c.rules /\ fin = c.fin
    /\ \E f \in CallFlags :
          include_separators = f.sep /\ progress_cb = f.cb /\ output_path = f.output
    /\ Called
    /\ argv = NoArgv
    /\ peer = NoPeer
    /\ status = NoStatus

(* variant of Start: the countdowns are kept from one call to the next,    *)
(* a call goes on from those the call before it left                       *)
StartKeepsCountdowns ==
    /\ pc = "start"
    /\ ~CompileFails(rules)
    /\ pc' = "poll"
    /\ active' = IF Len(active) = Len(rules.blocks) THEN active
                 ELSE [i \in 1..Len(rules.blocks) |-> 0]
    /\ line_no' = 0
    /\ handles' = Opened(output_path)
    /\ out' = IF output_path = {} THEN out ELSE <<>>
    /\ UNCHANGED <<args, outside, result, cancel_event, cb, decided, cancel_at, error>>

(* lines 37-61: compile the patterns, set every countdown to 0, open the   *)
(* input, and the output when a path is given: open(output_path, "w")      *)
(* empties the file                                                        *)
Start ==
    /\ pc = "start"
    /\ ~CompileFails(rules)
    /\ pc' = "poll"
    /\ active' = [i \in 1..Len(rules.blocks) |-> 0]
    /\ line_no' = 0
    /\ handles' = Opened(output_path)
    /\ out' = IF output_path = {} THEN out ELSE <<>>
    /\ UNCHANGED <<args, outside, result, cancel_event, cb, decided, cancel_at, error>>

(* variant of StartCompileError: the patterns are compiled after the files *)
(* have been opened, inside the try block                                  *)
StartCompileErrorAfterOpen ==
    /\ pc = "start"
    /\ CompileFails(rules)
    /\ pc' = "raised"
    /\ error' = "re.error"
    /\ handles' = Closed(Opened(output_path))
    /\ UNCHANGED <<args, outside, result, cancel_event, line_no, active, out, cb, decided,
                   cancel_at>>

(* lines 37-42: re.compile rejects an include pattern or a trigger *)
StartCompileError ==
    /\ pc = "start"
    /\ CompileFails(rules)
    /\ pc' = "raised"
    /\ error' = "re.error"
    /\ UNCHANGED <<args, outside, result, cancel_event, line_no, active, out, cb, decided,
                   cancel_at, handles>>

(* variant of StartInputOpenFails: the output file is opened first *)
StartInputOpenFailsAfterOutput ==
    /\ pc = "start"
    /\ ~CompileFails(rules)
    /\ pc' = "raised"
    /\ error' = "OSError(input)"
    /\ active' = [i \in 1..Len(rules.blocks) |-> 0]
    /\ handles' = [fin |-> "unopened", fout |-> "open"]
    /\ UNCHANGED <<args, outside, result, cancel_event, line_no, out, cb, decided, cancel_at>>

(* lines 37-47: open(input_path) raises *)
StartInputOpenFails ==
    /\ pc = "start"
    /\ ~CompileFails(rules)
    /\ pc' = "raised"
    /\ error' = "OSError(input)"
    /\ active' = [i \in 1..Len(rules.blocks) |-> 0]
    /\ UNCHANGED <<args, outside, result, cancel_event, line_no, out, cb, decided, cancel_at,
                   handles>>

(* lines 37-52: open(output_path, "w") raises; fin is open, and the try    *)
(* block whose finally clause closes it has not been entered               *)
StartOutputOpenFails ==
    /\ pc = "start"
    /\ ~CompileFails(rules)
    /\ output_path # {}
    /\ pc' = "raised"
    /\ error' = "OSError(output)"
    /\ active' = [i \in 1..Len(rules.blocks) |-> 0]
    /\ handles' = [fin |-> "open", fout |-> "unopened"]
    /\ UNCHANGED <<args, outside, result, cancel_event, line_no, out, cb, decided, cancel_at>>

(* lines 62-66, flag clear: fetch the next line, count it, pass the poll *)
Poll ==
    /\ pc = "poll"
    /\ line_no < NumLines(fin)
    /\ ~cancel_event
    /\ line_no' = line_no + 1
    /\ pc' = "body"
    /\ UNCHANGED <<args, outside, result, cancel_event, active, out, cb, decided, cancel_at,
                   error, handles>>

(* lines 62 and 115-118: fetching the next line, or finding that there is  *)
(* none, raises; the finally clause closes the files and the exception     *)
(* leaves the call                                                         *)
PollReadFails ==
    /\ pc = "poll"
    /\ pc' = "raised"
    /\ error' \in Leaves("OSError(read)", out)
    /\ handles' = Closed(handles)
    /\ UNCHANGED <<args, outside, result, cancel_event, line_no, active, out, cb, decided,
                   cancel_at>>

(* variant of PollCancelled: the flag is tested at the end of the loop body *)
(* instead of its start, so the line fetched is still decided              *)
PollCancelledAfterBody ==
    /\ pc = "poll"
    /\ line_no < NumLines(fin)
    /\ cancel_event
    /\ line_no' = line_no + 1
    /\ LET line == LineAt(fin, line_no + 1)
       IN  /\ active' = BlockActive(rules, active, line)
           /\ out' = out \o Emitted(rules, include_separators, active, line, line_no + 1)
    /\ decided' = decided + 1
    /\ cb' = cb \o FinalProgress(progress_cb, line_no + 1, Len(out'))
    /\ pc' = "done"
    /\ result' = None
    /\ handles' = Closed(handles)
    /\ UNCHANGED <<args, outside, cancel_event, cancel_at, error>>

(* variant of PollCancelled: the flag is tested between the separator and  *)
(* the line, so a triggering line's separator is written before the break  *)
PollCancelledMidLine ==
    /\ pc = "poll"
    /\ line_no < NumLines(fin)
    /\ cancel_event
    /\ line_no' = line_no + 1
    /\ LET hits == Hits(rules, LineAt(fin, line_no + 1))
       IN  out' = out \o (IF rules.blocks # <<>> /\ hits # {} /\ include_separators
                          THEN <<Separator(line_no + 1, Cardinality(hits))>> ELSE <<>>)
    /\ cb' = cb \o FinalProgress(progress_cb, line_no + 1, Len(out'))
    /\ pc' = "done"
    /\ result' = None
    /\ handles' = Closed(handles)
    /\ UNCHANGED <<args, outside, cancel_event, active, decided, cancel_at, error>>

(* lines 62-66 and 113-118, flag set: fetch the next line, count it, break, *)
(* make the final progress call, close the files (fout.close() flushes    *)
(* what was written, here with success), return                           *)
PollCancelled ==
    /\ pc = "poll"
    /\ line_no < NumLines(fin)
    /\ cancel_event
    /\ line_no' = line_no + 1
    /\ cb' = cb \o FinalProgress(progress_cb, line_no + 1, Len(out))
    /\ pc' = "done"
    /\ result' = None
    /\ handles' = Closed(handles)
    /\ UNCHANGED <<args, outside, cancel_event, active, out, decided, cancel_at, error>>

(* lines 68-111: the rest of the loop body for the line fetched *)
ProcessLine ==
    /\ pc = "body"
    /\ LET line == LineAt(fin, line_no)
           written == out \o Emitted(rules, include_separators, active, line, line_no)
       IN  /\ active' = BlockActive(rules, active, line)
           /\ out' = written
           /\ cb' = cb \o Progress(progress_cb, line_no, Len(written))
    /\ decided' = decided + 1
    /\ pc' = "poll"
    /\ UNCHANGED <<args, outside, result, cancel_event, line_no, cancel_at, error, handles>>

(* lines 68-108 and 115-118: a write of the loop body raises (fout.write   *)
(* or print in emit); the writes before it have been made, the finally     *)
(* clause closes the files, and the exception of the write, or that of     *)
(* fout.close(), leaves the call                                           *)
ProcessLineWriteFails ==
    /\ pc = "body"
    /\ LET line == LineAt(fin, line_no)
           em   == Emitted(rules, include_separators, active, line, line_no)
       IN  /\ em # <<>>
           /\ \E m \in 0..(Len(em) - 1) : out' = out \o SubSeq(em, 1, m)
           /\ active' = BlockActive(rules, active, line)
    /\ pc' = "raised"
    /\ error' \in WriteLeaves
    /\ handles' = Closed(handles)
    /\ UNCHANGED <<args, outside, result, cancel_event, line_no, cb, decided, cancel_at>>

(* lines 110-111 and 115-118: the interim progress call of a loop body     *)
(* raises; the line has been decided and written, the finally clause       *)
(* closes the files and the exception leaves the call                      *)
ProcessLineCallbackRaises ==
    /\ pc = "body"
    /\ LET line    == LineAt(fin, line_no)
           written == out \o Emitted(rules, include_separators, active, line, line_no)
       IN  /\ Progress(progress_cb, line_no, Len(written)) # <<>>
           /\ active' = BlockActive(rules, active, line)
           /\ out' = written
           /\ cb' = cb \o Progress(progress_cb, line_no, Len(written))
    /\ decided' = decided + 1
    /\ pc' = "raised"
    /\ error' \in Leaves("Exception(callback)", out')
    /\ handles' = Closed(handles)
    /\ UNCHANGED <<args, outside, result, cancel_event, line_no, cancel_at>>

(* lines 62-66 and 113-118: the loop is left, by end of input or by the    *)
(* poll seeing the flag, and the final progress call raises; the finally   *)
(* clause closes the files and the exception leaves the call               *)
FinalCallbackRaises ==
    /\ pc = "poll"
    /\ progress_cb
    /\ line_no = NumLines(fin) \/ cancel_event
    /\ line_no' = IF line_no < NumLines(fin) THEN line_no + 1 ELSE line_no
    /\ cb' = cb \o FinalProgress(progress_cb, line_no', Len(out))
    /\ pc' = "raised"
    /\ error' \in Leaves("Exception(callback)", out)
    /\ handles' = Closed(handles)
    /\ UNCHANGED <<args, outside, result, cancel_event, active, out, decided,
                   cancel_at>>

(* lines 62-66 and 113-118: the loop is left, by end of input or by the    *)
(* poll seeing the flag, the final progress call is made and returns, and  *)
(* fout.close() raises in the finally clause: the call reports             *)
(* finished=True and then raises                                           *)
CloseFails ==
    /\ pc = "poll"
    /\ line_no = NumLines(fin) \/ cancel_event
    /\ CloseCanFail(out)
    /\ line_no' = IF line_no < NumLines(fin) THEN line_no + 1 ELSE line_no
    /\ cb' = cb \o FinalProgress(progress_cb, line_no', Len(out))
    /\ pc' = "raised"
    /\ error' = "OSError(close)"
    /\ handles' = Closed(handles)
    /\ UNCHANGED <<args, outside, result, cancel_event, active, out, decided,
                   cancel_at>>

(* variant of EndOfInput: the engine gives up after a time of its own, so  *)
(* the loop can be left at any line                                        *)
EndOfInputOrTimeout ==
    /\ pc = "poll"
    /\ line_no <= NumLines(fin)
    /\ cb' = cb \o FinalProgress(progress_cb, line_no, Len(out))
    /\ pc' = "done"
    /\ result' = None
    /\ handles' = Closed(handles)
    /\ UNCHANGED <<args, outside, cancel_event, line_no, active, out, decided,
                   cancel_at, error>>

(* lines 62 and 113-118: the input is exhausted; final progress call, then  *)
(* the files are closed (fout.close() flushes what was written, here with  *)
(* success) and the call returns                                           *)
EndOfInput ==
    /\ pc = "poll"
    /\ line_no = NumLines(fin)
    /\ cb' = cb \o FinalProgress(progress_cb, line_no, Len(out))
    /\ pc' = "done"
    /\ result' = None
    /\ handles' = Closed(handles)
    /\ UNCHANGED <<args, outside, cancel_event, line_no, active, out, decided,
                   cancel_at, error>>

(* the caller's thread: cancel_event.set() while the call is running *)
SetCancel ==
    /\ pc \notin {"done", "raised"}
    /\ ~cancel_event
    /\ cancel_event' = TRUE
    /\ cancel_at' = <<decided, pc>>
    /\ UNCHANGED <<args, outside, result, pc, line_no, active, out, cb, decided, error,
                   handles>>

(* extract_file without cancellation, as a function of its arguments: what *)
(* the loop writes from line k on, the countdowns being act before line k  *)
RECURSIVE RunFrom(_, _, _, _, _)
RunFrom(rs, sep, f, k, act) ==
    IF k > NumLines(f) THEN <<>>
    ELSE Emitted(rs, sep, act, LineAt(f, k), k)
         \o RunFrom(rs, sep, f, k + 1, BlockActive(rs, act, LineAt(f, k)))

UncancelledOutput(rs, sep, f) ==
    RunFrom(rs, sep, f, 1, [i \in 1..Len(rs.blocks) |-> 0])

Next ==
    \/ Start
    \/ StartCompileError
    \/ StartInputOpenFails
    \/ StartOutputOpenFails
    \/ Poll
    \/ PollReadFails
    \/ PollCancelled
    \/ ProcessLine
    \/ ProcessLineWriteFails
    \/ EndOfInput
    \/ FinalCallbackRaises
    \/ CloseFails
    \/ SetCancel

Spec == Init /\ [][Next]_vars

(* a step of the thread that runs the call: every action but the caller's *)
Step ==
    \/ Start
    \/ StartCompileError
    \/ StartInputOpenFails
    \/ StartOutputOpenFails
    \/ Poll
    \/ PollReadFails
    \/ PollCancelled
    \/ ProcessLine
    \/ ProcessLineWriteFails
    \/ EndOfInput
    \/ FinalCallbackRaises
    \/ CloseFails

(* the thread that runs the call is scheduled for as long as it can take a *)
(* step: no statement of extract_file waits for anything                   *)
SpecLive == Spec /\ WF_vars(Step)

(* Calls on inputs long enough for the loop to report progress: a trigger   *)
(* just before the first report, a whole number of reporting intervals,    *)
(* and an input shorter than one interval                                  *)
LongFiles ==
    {File(<<>>, ln_x, ProgressEvery - 2, <<ln_a, ln_x, ln_x>>),
     File(<<ln_a>>, ln_x, 2 * ProgressEvery - 1, <<>>),
     File(<<ln_x, ln_a>>, ln_x, ProgressEvery - 3, <<>>)}

LongRules ==
    {Rules(<<>>, <<Block(ln_a, MaxAfter)>>, FALSE),
     Rules(<<ln_a>>, <<>>, FALSE),
     Rules(<<ln_a>>, <<Block(ln_paren, 1)>>, TRUE)}

InitLong ==
    /\ rules \in LongRules
    /\ fin \in LongFiles
    /\ \E f \in CallFlags :
          include_separators = f.sep /\ progress_cb = f.cb /\ output_path = f.output
    /\ Called
    /\ argv = NoArgv
    /\ peer = NoPeer
    /\ status = NoStatus

(* on long inputs the interim progress call is made, and may raise *)
NextLong == Next \/ ProcessLineCallbackRaises

SpecLong == InitLong /\ [][NextLong]_vars

(***************************************************************************)
(* Two calls of extract_file on one Rules object, with the same flags, a   *)
(* callback and no cancel event.  One thread executes at a time: the       *)
(* variables of the engine are those of the call whose thread executes,    *)
(* and peer holds what belongs to the other call, its arguments input_path *)
(* and output_path, its locals (line_no, active, the two files), what it   *)
(* has written, the calls of its callback and its outcome.  The Rules      *)
(* object, the flags and the callback function are the same for both.      *)
(***************************************************************************)

(* what belongs to the call that executes *)
ThisCall ==
    [pc |-> pc, fin |-> fin, output_path |-> output_path, line_no |-> line_no,
     active |-> active, out |-> out, cb |-> cb, decided |-> decided,
     error |-> error, handles |-> handles, result |-> result]

(* a call just made on input f, writing to path *)
PeerCalled(f, path) ==
    [pc |-> "start", fin |-> f, output_path |-> path, line_no |-> 0, active |-> <<>>,
     out |-> <<>>, cb |-> <<>>, decided |-> 0, error |-> "", handles |-> Unopened,
     result |-> Pending]

(* variant of Switch: the countdowns are kept in one place for all calls   *)
(* on the Rules object, so each call reads and writes those of the other   *)
SwitchSharedActive ==
    /\ peer.pc # "absent"
    /\ peer' = ThisCall
    /\ pc' = peer.pc
    /\ fin' = peer.fin
    /\ output_path' = peer.output_path
    /\ line_no' = peer.line_no
    /\ active' = active
    /\ out' = peer.out
    /\ cb' = peer.cb
    /\ decided' = peer.decided
    /\ error' = peer.error
    /\ handles' = peer.handles
    /\ result' = peer.result
    /\ UNCHANGED <<rules, include_separators, progress_cb, cancel_event, cancel_at,
                   status, argv>>

(* the interpreter hands execution to the thread of the other call, which  *)
(* goes on with its own frame of extract_file (the locals of lines 37-61)  *)
Switch ==
    /\ peer.pc # "absent"
    /\ peer' = ThisCall
    /\ pc' = peer.pc
    /\ fin' = peer.fin
    /\ output_path' = peer.output_path
    /\ line_no' = peer.line_no
    /\ active' = peer.active
    /\ out' = peer.out
    /\ cb' = peer.cb
    /\ decided' = peer.decided
    /\ error' = peer.error
    /\ handles' = peer.handles
    /\ result' = peer.result
    /\ UNCHANGED <<rules, include_separators, progress_cb, cancel_event, cancel_at,
                   status, argv>>

(* the rule sets two calls share; the last does not compile *)
SharedRules ==
    {Rules(<<>>, <<Block(ln_a, 1)>>, FALSE),
     Rules(<<>>, <<Block(ln_a, MaxAfter)>>, FALSE),
     Rules(<<ln_x>>, <<Block(ln_a, 1), Block(ln_x, 0)>>, FALSE),
     Rules(<<ln_a>>, <<>>, TRUE),
     Rules(<<>>, <<Block(ln_paren, 1)>>, TRUE)}

(* the inputs of two concurrent calls *)
TwoInputs == SeqsUpTo({ln_a, ln_x}, MaxLines - 1) \ {<<>>}

(* the output of the second of two concurrent calls *)
PeerPath == {"peer.txt"}

(* two calls on different inputs and outputs, made at the same time *)
InitTwo ==
    /\ rules \in SharedRules
    /\ include_separators \in BOOLEAN
    /\ progress_cb = TRUE
    /\ output_path = OutPath
    /\ \E l1 \in TwoInputs, l2 \in TwoInputs :
          /\ l1 # l2
          /\ fin = ShortFile(l1)
          /\ peer = PeerCalled(ShortFile(l2), PeerPath)
    /\ Called
    /\ argv = NoArgv
    /\ status = NoStatus

NextTwo ==
    \/ Start
    \/ StartCompileError
    \/ StartInputOpenFails
    \/ StartOutputOpenFails
    \/ Poll
    \/ PollReadFails
    \/ ProcessLine
    \/ ProcessLineWriteFails
    \/ EndOfInput
    \/ FinalCallbackRaises
    \/ CloseFails
    \/ Switch

SpecTwo == InitTwo /\ [][NextTwo]_vars

(***************************************************************************)
(* The same call made twice, the second time after the first has returned. *)
(***************************************************************************)

(* the calls made twice: short inputs, and long ones under rule sets that  *)
(* compile                                                                 *)
TwiceCalls ==
    {[rules |-> r, fin |-> ShortFile(ls)] :
        r \in SharedRules, ls \in SeqsUpTo({ln_a, ln_x}, MaxLines)}
    \cup {[rules |-> r, fin |-> f] :
             r \in {r \in LongRules : ~CompileFails(r)}, f \in LongFiles}

(* the first of the two calls has been made *)
InitTwice ==
    /\ \E c \in TwiceCalls : rules = c.rules /\ fin = c.fin
    /\ include_separators \in BOOLEAN
    /\ progress_cb = TRUE
    /\ output_path \in {None, OutPath}
    /\ peer = NoPeer
    /\ Called
    /\ argv = NoArgv
    /\ status = NoStatus

(* the caller calls extract_file again with the same arguments once the    *)
(* first call has returned; peer keeps the first call.  The output file    *)
(* still holds what the first call wrote (the standard output has nothing  *)
(* of the new call yet), and the locals of the new call are not bound      *)
(* before lines 45 and 61 assign them: line_no and active hold what the    *)
(* first call left                                                         *)
CallAgain ==
    /\ pc = "done"
    /\ peer = NoPeer
    /\ peer' = ThisCall
    /\ pc' = "start"
    /\ out' = IF output_path = None THEN <<>> ELSE out
    /\ cb' = <<>>
    /\ decided' = 0
    /\ error' = ""
    /\ handles' = Unopened
    /\ result' = Pending
    /\ UNCHANGED <<args, status, argv, cancel_event, cancel_at, line_no, active>>

NextTwice ==
    \/ Start
    \/ StartCompileError
    \/ StartInputOpenFails
    \/ StartOutputOpenFails
    \/ Poll
    \/ PollReadFails
    \/ ProcessLine
    \/ ProcessLineWriteFails
    \/ ProcessLineCallbackRaises
    \/ EndOfInput
    \/ FinalCallbackRaises
    \/ CloseFails
    \/ CallAgain

SpecTwice == InitTwice /\ [][NextTwice]_vars

(***************************************************************************)
(* The texts of the front-ends: the Qt window (qt_gui/gui_qt.py) and the   *)
(* terminal interface (tui.py) show the state of a run in a status label   *)
(* (status.text); the Qt window adds a message box and the terminal        *)
(* interface a log, of which status.box is the latest line.  Texts are     *)
(* sequences of the pieces of the f-string that builds them; "..." stands  *)
(* for the ellipsis character U+2026.  The session of a front-end is       *)
(* modelled further down (SpecSession).                                    *)
(***************************************************************************)

(* three decimal digits *)
Pad3(r) ==
    IF r < 10 THEN "00" \o ToString(r)
    ELSE IF r < 100 THEN "0" \o ToString(r)
    ELSE ToString(r)

RECURSIVE Grouped(_)
(* f"{n:,}" *)
Grouped(n) ==
    IF n < 1000 THEN ToString(n)
    ELSE Grouped(n \div 1000) \o "," \o Pad3(n % 1000)

(* the variable last of ExtractWorker.run, last_lines of _extract_thread:  *)
(* the line count of the latest callback                                   *)
last == IF cb = <<>> THEN 0 ELSE cb[Len(cb)].n

(***************************************************************************)
(* The command line (cli.py) and the Rule Set document (config.py).        *)
(*                                                                         *)
(* argv is the namespace argparse builds: include and block are the        *)
(* repeated options in the order given, a block specification being a      *)
(* sequence of characters; config is None ({}) or {f} with f the file the  *)
(* option names: its path, the exception open raises on it, the exception  *)
(* json.load raises on its text ("" for none), and the value json.load     *)
(* returns for it.                                                         *)
(*                                                                         *)
(* A character outside ASCII is written by its code point, "U+0663".  A    *)
(* JSON value is a record: t names its type, and b, i, s, l or o holds the *)
(* value (a float holds its tenths in i, NaN and Infinity have types of    *)
(* their own; an object holds its members in o, in the order of the text,  *)
(* as records of a key k and a value v).                                   *)
(***************************************************************************)

(* BlockRule.after when not given (rules.py, line 9); config.py (line 18)  *)
(* and the --after option (cli.py, line 23) repeat the number              *)
DefaultAfter == 100

(* the characters str.strip() removes: those with str.isspace() *)
Whitespace ==
    {" ", "\t", "\n", "\r", "\f", "U+000B", "U+001C", "U+001D", "U+001E",
     "U+001F", "U+0085", "U+00A0", "U+1680", "U+2000", "U+2001", "U+2002",
     "U+2003", "U+2004", "U+2005", "U+2006", "U+2007", "U+2008", "U+2009",
     "U+200A", "U+2028", "U+2029", "U+202F", "U+205F", "U+3000"}

(* the characters int() skips around a number: the same without the four   *)
(* ASCII separators, which it rejects                                      *)
IntSpace == Whitespace \ {"U+001C", "U+001D", "U+001E", "U+001F"}

RECURSIVE StripOf(_, _)
(* s without the characters of W at its two ends *)
StripOf(s, W) ==
    IF s = <<>> THEN s
    ELSE IF Head(s) \in W THEN StripOf(Tail(s), W)
    ELSE IF s[Len(s)] \in W THEN StripOf(SubSeq(s, 1, Len(s) - 1), W)
    ELSE s

(* str.strip() *)
Strip(s) == StripOf(s, Whitespace)

(* the decimal digits int() reads: every character of category Nd with    *)
(* its digit value; of the scripts of Unicode the table holds the ASCII    *)
(* and the Arabic-Indic digits                                             *)
DigitRows ==
    <<<<"0", "1", "2", "3", "4", "5", "6", "7", "8", "9">>,
      <<"U+0660", "U+0661", "U+0662", "U+0663", "U+0664", "U+0665", "U+0666",
        "U+0667", "U+0668", "U+0669">>>>

IsDigit(c) ==
    \E r \in 1..Len(DigitRows) : \E d \in 1..Len(DigitRows[r]) : DigitRows[r][d] = c

DigitValue(c) ==
    CHOOSE v \in 0..9 : \E r \in 1..Len(DigitRows) : DigitRows[r][v + 1] = c

(* the text int() parses: s without the space around it and without sign *)
IntBody(s) ==
    LET t == StripOf(s, IntSpace)
    IN  IF t # <<>> /\ t[1] \in {"-", "+"} THEN Tail(t) ELSE t

(* int(s) does not raise ValueError: space, an optional sign, then digits   *)
(* with single underscores between them, then space                        *)
IsInt(s) ==
    LET body == IntBody(s)
    IN  /\ body # <<>>
        /\ \A j \in 1..Len(body) :
              \/ IsDigit(body[j])
              \/ /\ body[j] = "_"
                 /\ 1 < j /\ j < Len(body)
                 /\ IsDigit(body[j - 1]) /\ IsDigit(body[j + 1])

RECURSIVE Decimal(_)
(* the number a sequence of digits writes *)
Decimal(ds) ==
    IF ds = <<>> THEN 0
    ELSE 10 * Decimal(SubSeq(ds, 1, Len(ds) - 1)) + DigitValue(ds[Len(ds)])

(* int(s), for s with IsInt(s) *)
IntOf(s) ==
    LET t == StripOf(s, IntSpace)
        n == Decimal(SelectSeq(IntBody(s), IsDigit))
    IN  IF t[1] = "-" THEN 0 - n ELSE n

(* "::" in s *)
HasSep(s) == \E k \in 1..(Len(s) - 1) : s[k] = ":" /\ s[k + 1] = ":"

(* s.rsplit("::", 1): the split is made at the last "::" *)
RSplit(s) ==
    LET k == CHOOSE k \in 1..(Len(s) - 1) :
                 /\ s[k] = ":" /\ s[k + 1] = ":"
                 /\ \A m \in (k + 1)..(Len(s) - 1) : ~(s[m] = ":" /\ s[m + 1] = ":")
    IN  <<SubSeq(s, 1, k - 1), SubSeq(s, k + 2, Len(s))>>

(* _parse_block raises ValueError *)
parse_block_fails(s) == HasSep(s) /\ ~IsInt(Strip(RSplit(s)[2]))

(* _parse_block *)
parse_block(s, default_after) ==
    IF HasSep(s)
    THEN Block(Strip(RSplit(s)[1]), IntOf(Strip(RSplit(s)[2])))
    ELSE Block(Strip(s), default_after)

(* the values json.load returns *)
JNull == [t |-> "null", b |-> FALSE, i |-> 0, s |-> <<>>, l |-> <<>>, o |-> <<>>]
JBool(v) == [JNull EXCEPT !.t = "bool", !.b = v]
JInt(n) == [JNull EXCEPT !.t = "int", !.i = n]
JFloat(tenths) == [JNull EXCEPT !.t = "float", !.i = tenths]
JNaN == [JNull EXCEPT !.t = "nan"]
JInfinity == [JNull EXCEPT !.t = "inf"]
JStr(s) == [JNull EXCEPT !.t = "str", !.s = s]
JList(l) == [JNull EXCEPT !.t = "list", !.l = l]
JObj(o) == [JNull EXCEPT !.t = "obj", !.o = o]

(* the keys load_rules_json reads *)
k_include == <<"i", "n", "c", "l", "u", "d", "e">>
k_regex == <<"r", "e", "g", "e", "x">>
k_blocks == <<"b", "l", "o", "c", "k", "s">>
k_trigger == <<"t", "r", "i", "g", "g", "e", "r">>
k_after == <<"a", "f", "t", "e", "r">>

(* key in d, for a dict d *)
HasKey(d, key) == \E j \in 1..Len(d.o) : d.o[j].k = key

(* d.get(key, default), for a dict d *)
DictGet(d, key, default) ==
    IF HasKey(d, key)
    THEN d.o[CHOOSE j \in 1..Len(d.o) : d.o[j].k = key].v
    ELSE default

(* bool(v) *)
Truth(v) ==
    CASE v.t = "null" -> FALSE
      [] v.t = "bool" -> v.b
      [] v.t \in {"int", "float"} -> v.i # 0
      [] v.t \in {"nan", "inf"} -> TRUE
      [] v.t = "str" -> v.s # <<>>
      [] v.t = "list" -> v.l # <<>>
      [] v.t = "obj" -> v.o # <<>>

(* v or default *)
Or(v, default) == IF Truth(v) THEN v ELSE default

(* list(v) raises TypeError: v is not iterable *)
ListFails(v) == v.t \notin {"list", "str", "obj"}

(* list(v): the items of a list, the characters of a string, the keys of   *)
(* a dict                                                                  *)
ListOf(v) ==
    CASE v.t = "list" -> v.l
      [] v.t = "str" -> [j \in 1..Len(v.s) |-> JStr(<<v.s[j]>>)]
      [] v.t = "obj" -> [j \in 1..Len(v.o) |-> JStr(v.o[j].k)]

(* the exception int(v) raises, "" if none *)
IntError(v) ==
    CASE v.t \in {"null", "list", "obj"} -> "TypeError"
      [] v.t = "str" -> IF IsInt(v.s) THEN "" ELSE "ValueError"
      [] v.t = "nan" -> "ValueError"
      [] v.t = "inf" -> "OverflowError"
      [] v.t \in {"bool", "int", "float"} -> ""

(* int(v): a float is cut towards zero *)
IntValue(v) ==
    CASE v.t = "int" -> v.i
      [] v.t = "bool" -> IF v.b THEN 1 ELSE 0
      [] v.t = "float" -> IF v.i >= 0 THEN v.i \div 10 ELSE 0 - ((0 - v.i) \div 10)
      [] v.t = "str" -> IntOf(v.s)

(* lines 12 and 14: list(data.get(key, []) or []) *)
ListField(data, key) == Or(DictGet(data, key, JList(<<>>)), JList(<<>>))

(* lines 15-21, for one item b of the blocks: the exception raised, "" if  *)
(* none; b["trigger"] is evaluated before b.get("after", 100)              *)
BlockError(b) ==
    IF b.t # "obj" THEN "TypeError"
    ELSE IF ~HasKey(b, k_trigger) THEN "KeyError"
    ELSE IntError(DictGet(b, k_after, JInt(DefaultAfter)))

(* load_rules_json, lines 9-22, on the file f: the exception it raises, "" *)
(* if none                                                                 *)
load_error(f) ==
    IF f.open_error # "" THEN f.open_error
    ELSE IF f.read_error # "" THEN f.read_error
    ELSE IF f.data.t # "obj" THEN "AttributeError"
    ELSE IF ListFails(ListField(f.data, k_include)) THEN "TypeError"
    ELSE IF ListFails(ListField(f.data, k_blocks)) THEN "TypeError"
    ELSE LET blocks_in == ListOf(ListField(f.data, k_blocks))
             bad       == {j \in 1..Len(blocks_in) : BlockError(blocks_in[j]) # ""}
         IN  IF bad = {} THEN ""
             ELSE BlockError(blocks_in[CHOOSE j \in bad : \A m \in bad : j <= m])

(* the pattern a JSON string gives *)
PatternOf(v) == v.s

(* variant of load_rules_json: a block without "after" gets after = 0 *)
load_rules_json_after0(data) ==
    LET include   == ListOf(ListField(data, k_include))
        blocks_in == ListOf(ListField(data, k_blocks))
    IN  Rules([j \in 1..Len(include) |-> PatternOf(include[j])],
              [j \in 1..Len(blocks_in) |->
                  Block(PatternOf(DictGet(blocks_in[j], k_trigger, JNull)),
                        IntValue(DictGet(blocks_in[j], k_after, JInt(0))))],
              Truth(DictGet(data, k_regex, JBool(FALSE))))

(* load_rules_json, lines 12-22, from the object read *)
load_rules_json(data) ==
    LET include   == ListOf(ListField(data, k_include))
        blocks_in == ListOf(ListField(data, k_blocks))
    IN  Rules([j \in 1..Len(include) |-> PatternOf(include[j])],
              [j \in 1..Len(blocks_in) |->
                  Block(PatternOf(DictGet(blocks_in[j], k_trigger, JNull)),
                        IntValue(DictGet(blocks_in[j], k_after, JInt(DefaultAfter))))],
              Truth(DictGet(data, k_regex, JBool(FALSE))))

(* the file --config names *)
ConfigFile(a) == CHOOSE f \in a.config : TRUE

(* line 30, if args.config: the option was given and is not the empty      *)
(* string                                                                  *)
UsesConfig(a) == a.config # None /\ ConfigFile(a).path # <<>>

(* variant of cli_rules: the --include patterns are added to those of the  *)
(* document, and --regex switches it to Pattern mode                       *)
cli_rules_merged(a) ==
    IF UsesConfig(a)
    THEN LET doc == load_rules_json(ConfigFile(a).data)
         IN  Rules(doc.include \o a.include, doc.blocks, doc.regex \/ a.regex)
    ELSE Rules(a.include,
               [i \in 1..Len(a.block) |-> parse_block(a.block[i], a.after)],
               a.regex)

(* main, lines 30-34: the Rules object handed to extract_file *)
cli_rules(a) ==
    IF UsesConfig(a)
    THEN load_rules_json(ConfigFile(a).data)
    ELSE Rules(a.include,
               [i \in 1..Len(a.block) |-> parse_block(a.block[i], a.after)],
               a.regex)

(* main, lines 30-34: the exception raised while the rules are built, ""   *)
(* if none                                                                 *)
cli_rules_error(a) ==
    IF UsesConfig(a) THEN load_error(ConfigFile(a))
    ELSE IF \E i \in 1..Len(a.block) : parse_block_fails(a.block[i]) THEN "ValueError"
    ELSE ""

(* main raises while it builds the rules *)
cli_rules_fail(a) == cli_rules_error(a) # ""

(* block specifications: bare, with a count, with a negative count, with   *)
(* space, with "::" inside the trigger, with a count of two digits, with   *)
(* an underscore, in Arabic-Indic digits, with a tab and a no-break space  *)
(* around it, with a count that is no integer, with a doubled underscore,  *)
(* and one that is no regular expression                                   *)
BlockSpecs ==
    {<<"a">>,
     <<"a", ":", ":", "1">>,
     <<"a", ":", ":", "-", "1">>,
     <<"a", " ", ":", ":", " ", "2">>,
     <<"a", ":", ":", "b", ":", ":", "0">>,
     <<"a", ":", ":", "1", "0">>,
     <<"a", ":", ":", "0", "_", "2">>,
     <<"a", ":", ":", "U+0662">>,
     <<"\t", "a", ":", ":", "\t", "1", "U+00A0">>,
     <<"a", ":", ":", "x">>,
     <<"a", ":", ":", "1", "_", "_", "0">>,
     <<"a", ":", ":", "U+001C", "1">>,
     <<"(">>}

(* one block of a document, with and without "after" *)
BlockDoc(t, n) == JObj(<<[k |-> k_trigger, v |-> JStr(t)], [k |-> k_after, v |-> n]>>)
BlockDocBare(t) == JObj(<<[k |-> k_trigger, v |-> JStr(t)]>>)

(* a list of patterns *)
Patterns(ps) == JList([j \in 1..Len(ps) |-> JStr(ps[j])])

(* a document with the members given *)
Doc(include, regex, blocks) ==
    JObj(<<[k |-> k_include, v |-> include], [k |-> k_regex, v |-> regex],
           [k |-> k_blocks, v |-> blocks]>>)

(* Rule Set documents the loader accepts: complete, without after, without *)
(* include and regex, with nulls, empty, regex false with the lists the    *)
(* other way round, and with values of other types where the loader        *)
(* converts them (after as a string, a float and a boolean, include as a   *)
(* string, regex as a number).  Patterns and triggers are strings.         *)
GoodDocs ==
    {Doc(Patterns(<<ln_x, ln_b>>), JBool(TRUE),
         JList(<<BlockDoc(ln_a, JInt(1)), BlockDoc(ln_dot, JInt(0))>>)),
     Doc(Patterns(<<ln_b, ln_x>>), JBool(FALSE),
         JList(<<BlockDoc(ln_b, JInt(0)), BlockDocBare(ln_a)>>)),
     JObj(<<[k |-> k_blocks, v |-> JList(<<BlockDocBare(ln_a)>>)]>>),
     JObj(<<[k |-> k_include, v |-> Patterns(<<ln_a>>)]>>),
     Doc(JNull, JBool(TRUE), JNull),
     JObj(<<>>),
     Doc(Patterns(<<ln_x>>), JInt(1),
         JList(<<BlockDoc(ln_a, JStr(<<" ", "1">>)), BlockDoc(ln_b, JFloat(0 - 17)),
                 BlockDoc(ln_x, JBool(TRUE))>>)),
     Doc(JStr(ln_ab), JNull, JList(<<>>))}

(* documents on which the loader raises: no object, include a number,      *)
(* blocks a string, a block that is a string, a block without trigger, and *)
(* after null, a list, a string that is no integer, NaN or Infinity        *)
BadDocs ==
    {JList(<<>>),
     Doc(JInt(1), JBool(FALSE), JList(<<>>)),
     Doc(Patterns(<<ln_a>>), JBool(FALSE), JStr(ln_a)),
     Doc(Patterns(<<ln_a>>), JBool(FALSE), JList(<<JStr(ln_a)>>)),
     Doc(Patterns(<<ln_a>>), JBool(FALSE),
         JList(<<BlockDoc(ln_a, JInt(1)), JObj(<<[k |-> k_after, v |-> JInt(1)]>>)>>)),
     Doc(Patterns(<<ln_a>>), JBool(FALSE), JList(<<BlockDoc(ln_a, JNull)>>)),
     Doc(Patterns(<<ln_a>>), JBool(FALSE), JList(<<BlockDoc(ln_a, JList(<<>>))>>)),
     Doc(Patterns(<<ln_a>>), JBool(FALSE), JList(<<BlockDoc(ln_a, JNaN)>>)),
     Doc(Patterns(<<ln_a>>), JBool(FALSE), JList(<<BlockDoc(ln_a, JInfinity)>>)),
     Doc(Patterns(<<ln_a>>), JBool(FALSE),
         JList(<<BlockDoc(ln_a, JStr(ln_x)), JObj(<<>>)>>))}

(* the path of a document *)
rules_json == <<"r", ".", "j", "s", "o", "n">>

(* a file with the text of the value d *)
Document(d) == [path |-> rules_json, open_error |-> "", read_error |-> "", data |-> d]

(* the files --config may name: a document, a file that is not there, a    *)
(* directory, a file that is no JSON text, a file that is no UTF-8 text,   *)
(* and the empty path                                                      *)
ConfigFiles ==
    {Document(d) : d \in GoodDocs \cup BadDocs}
    \cup {[Document(JNull) EXCEPT !.open_error = e] :
             e \in {"FileNotFoundError", "IsADirectoryError"}}
    \cup {[Document(JNull) EXCEPT !.read_error = e] :
             e \in {"JSONDecodeError", "UnicodeDecodeError"}}
    \cup {[Document(JNull) EXCEPT !.path = <<>>, !.open_error = "FileNotFoundError"]}

(* the rule options of a command line *)
CliOptions ==
    {[include |-> inc, block |-> bl, after |-> n, regex |-> re] :
        inc \in {<<>>, <<ln_x>>},
        bl \in {<<>>} \cup {<<b>> : b \in BlockSpecs}
               \cup {<<<<"b", ":", ":", "0">>, <<"a">>>>},
        n \in {DefaultAfter, 1},
        re \in BOOLEAN}

(* the command lines the model explores *)
CliArgvs ==
    {[include |-> op.include, block |-> op.block, after |-> op.after,
      regex |-> op.regex, separators |-> sep, config |-> c, output |-> o] :
        op \in CliOptions,
        sep \in BOOLEAN,
        c \in {None} \cup {{f} : f \in ConfigFiles},
        o \in {None, OutPath}}

(* the files named by --input *)
CliFiles ==
    {ShortFile(<<ln_a, ln_x, ln_x>>), ShortFile(<<ln_x, ln_b>>),
     ShortFile(<<ln_b, ln_a, ln_x>>)}

(* no Rules object has been built *)
NoRules == Rules(<<>>, <<>>, FALSE)

(* cli.main has been entered with the command line parsed *)
InitCli ==
    /\ argv \in CliArgvs
    /\ fin \in CliFiles
    /\ rules = NoRules
    /\ include_separators = FALSE
    /\ progress_cb = FALSE
    /\ output_path = None
    /\ cancel_event = FALSE
    /\ pc = "cli"
    /\ line_no = 0
    /\ active = <<>>
    /\ out = <<>>
    /\ cb = <<>>
    /\ decided = 0
    /\ cancel_at = <<>>
    /\ error = ""
    /\ handles = Unopened
    /\ result = Pending
    /\ peer = NoPeer
    /\ status = NoStatus

(* main, lines 28-41: build the rules, call extract_file with them, with   *)
(* the separators flag, without callback and without cancel event          *)
main ==
    /\ pc = "cli"
    /\ ~cli_rules_fail(argv)
    /\ rules' = cli_rules(argv)
    /\ include_separators' = argv.separators
    /\ output_path' = argv.output
    /\ pc' = "start"
    /\ UNCHANGED <<progress_cb, fin, outside, result, cancel_event, line_no, active,
                   out, cb, decided, cancel_at, error, handles>>

(* main, lines 28-34: the document cannot be loaded, or, without a         *)
(* document, a block specification has a count that is no integer          *)
mainRaises ==
    /\ pc = "cli"
    /\ cli_rules_fail(argv)
    /\ pc' = "raised"
    /\ error' = cli_rules_error(argv)
    /\ UNCHANGED <<args, outside, result, cancel_event, line_no, active, out, cb,
                   decided, cancel_at, handles>>

NextCli ==
    \/ main
    \/ mainRaises
    \/ Start
    \/ StartCompileError
    \/ StartInputOpenFails
    \/ StartOutputOpenFails
    \/ Poll
    \/ PollReadFails
    \/ ProcessLine
    \/ ProcessLineWriteFails
    \/ EndOfInput
    \/ CloseFails

SpecCli == InitCli /\ [][NextCli]_vars

----------------------------------------------------------------------------
(* Vocabulary of the properties, stated on the rule set and the input      *)
(* rather than on the engine's intermediate values                         *)

(* pattern p matches line under the mode of the run *)
PatternHit(line, p) ==
    IF rules.regex THEN RegexSearch(line, p) ELSE Contains(line, p)

BlockIdx == 1..Len(rules.blocks)

AfterOf(i) == rules.blocks[i].after

(* the trigger of block rule i matches input line k *)
TriggersAt(i, k) == PatternHit(LineAt(fin, k), rules.blocks[i].trigger)

(* some include pattern matches input line k *)
IncludedAt(k) ==
    \E j \in 1..Len(rules.include) : PatternHit(LineAt(fin, k), rules.include[j])

(* the step taken is the loop body of line line_no *)
BodyStep == pc = "body" /\ pc' = "poll"

(* the countdowns exist: the call is past its set-up *)
Started == pc \in {"poll", "body", "done"}

IsPrefix(s, t) == Len(s) <= Len(t) /\ SubSeq(t, 1, Len(s)) = s

Kept(ls) == [j \in 1..Len(ls) |-> Verbatim(ls[j])]

(* the file made of the first k lines of f *)
FirstLines(f, k) == File([j \in 1..k |-> LineAt(f, j)], f.filler, 0, <<>>)

----------------------------------------------------------------------------
(* C1: when block rule i (after = N >= 0) triggers at line k and does not  *)
(* trigger again afterwards, its countdown after line d >= k is            *)
(* max(0, N - (d - k)): the window covers exactly lines k..k+N and rule    *)
(* i's countdown is 0 once line k+N has been processed, whatever other     *)
(* rules match on those lines.                                             *)
C1_WindowIsExactlyAfter ==
    Started =>
        \A i \in BlockIdx : \A k \in 1..decided :
            (/\ AfterOf(i) >= 0
             /\ TriggersAt(i, k)
             /\ \A m \in (k + 1)..decided : ~TriggersAt(i, m))
            => active[i] = (IF AfterOf(i) - (decided - k) > 0
                            THEN AfterOf(i) - (decided - k) ELSE 0)

(* C2: a trigger hit of rule i leaves its countdown at max(remaining,      *)
(* after_i), never below the countdown before the hit; and rule            *)
(* {T, after 1} on input T, T, z, w emits exactly T, T, z.                 *)
C2_RetriggerNeverShortens ==
    /\ [][BodyStep =>
            \A i \in BlockIdx :
                TriggersAt(i, line_no) =>
                    /\ active'[i] = (IF active[i] >= AfterOf(i)
                                     THEN active[i] ELSE AfterOf(i))
                    /\ active'[i] >= active[i]]_vars
    /\ [](/\ rules = ScenarioRetrigger
          /\ fin = ScenarioRetriggerInput
          /\ ~include_separators
          /\ pc = "done"
          /\ decided = NumLines(fin)
          => out = Kept(<<ln_T, ln_T, ln_z>>))

(* a second trigger of the same rule arrived while its window was open *)
C2_Witness ==
    /\ pc = "poll"
    /\ decided >= 2
    /\ \E i \in BlockIdx :
        /\ AfterOf(i) >= 1
        /\ TriggersAt(i, decided - 1)
        /\ TriggersAt(i, decided)
        /\ active[i] = AfterOf(i)

(* C3: a line that hits no trigger and arrives while some countdown is > 0 *)
(* is emitted, and that one line lowers every open countdown by exactly 1  *)
(* (countdowns at 0 stay at 0).                                            *)
C3_WindowsDecayTogether ==
    [][(/\ BodyStep
        /\ \A i \in BlockIdx : ~TriggersAt(i, line_no)
        /\ \E i \in BlockIdx : active[i] > 0)
       =>
       (/\ out' = Append(out, Verbatim(LineAt(fin, line_no)))
        /\ \A i \in BlockIdx :
              active'[i] = (IF active[i] > 0 THEN active[i] - 1 ELSE 0))]_vars

(* two windows were open and both have just been lowered by one line *)
C3_Witness ==
    /\ pc = "poll"
    /\ decided >= 2
    /\ \A i \in BlockIdx : ~TriggersAt(i, decided)
    /\ \E i, j \in BlockIdx :
        /\ i # j
        /\ active[i] > 0 /\ active[i] < AfterOf(i)
        /\ active[j] > 0 /\ active[j] < AfterOf(j)
    /\ out[Len(out)] = Verbatim(LineAt(fin, decided))

(* C4: a line with no include match that hits no trigger and arrives while *)
(* every countdown is 0 is not written.                                    *)
C4_NothingKeptWithoutCause ==
    [][(/\ BodyStep
        /\ ~IncludedAt(line_no)
        /\ \A i \in BlockIdx : ~TriggersAt(i, line_no)
        /\ \A i \in BlockIdx : active[i] = 0)
       => out' = out]_vars

(* with include patterns and block rules configured, the first line was    *)
(* kept and the second, matching nothing with every window closed, dropped *)
C4_Witness ==
    /\ pc = "poll"
    /\ decided = 2
    /\ rules.include # <<>>
    /\ rules.blocks # <<>>
    /\ ~IncludedAt(2)
    /\ \A i \in BlockIdx : ~TriggersAt(i, 2) /\ active[i] = 0
    /\ out = <<Verbatim(LineAt(fin, 1))>>

(* C5: a processed line matching an include pattern is written, whatever   *)
(* the block state; adding include "A" to the TRIGGER / after 2 scenario   *)
(* yields A, TRIGGER, x, y.                                                *)
C5_IncludeAlwaysKept ==
    /\ [][(BodyStep /\ IncludedAt(line_no))
          =>
          (/\ Len(out') > Len(out)
           /\ SubSeq(out', 1, Len(out)) = out
           /\ out'[Len(out')] = Verbatim(LineAt(fin, line_no)))]_vars
    /\ [](/\ rules = ScenarioWithInclude
          /\ fin = ScenarioInput
          /\ ~include_separators
          /\ pc = "done"
          /\ decided = NumLines(fin)
          => out = Kept(<<ln_A, TRIGGER, ln_x, ln_y>>))

(* an include match was kept while a window was open and while none was *)
C5_Witness ==
    /\ rules = ScenarioWithInclude
    /\ fin = ScenarioInput
    /\ pc = "done"
    /\ decided = NumLines(fin)
    /\ out = Kept(<<ln_A, TRIGGER, ln_x, ln_y>>)

(* C6: if the flag is set after exactly k lines have been fully processed   *)
(* and before the next line is polled, the output holds exactly the        *)
(* decisions made for lines 1..k and the final progress call               *)
(* (finished = true) reports exactly k, also when input lines remain.      *)
C6_CancelReportsLinesProcessed ==
    (/\ pc = "done"
     /\ progress_cb
     /\ cancel_at # <<>>
     /\ cancel_at[2] \in {"start", "poll"})
    =>
    LET k == cancel_at[1]
    IN  /\ out = UncancelledOutput(rules, include_separators, FirstLines(fin, k))
        /\ cb # <<>>
        /\ cb[Len(cb)].finished
        /\ cb[Len(cb)].n = k

(* C7: once the poll at the start of a line sees the flag set, the engine   *)
(* writes nothing, changes no countdown, decides no line and returns; it   *)
(* fetches nothing after that; and after the flag is set at most the one   *)
(* line whose poll had already passed is still decided.  (The poll is     *)
(* reached when the fetch of the line before it has not raised.)           *)
C7_CancelStopsAtPoll ==
    /\ [][(pc = "poll" /\ cancel_event /\ line_no < NumLines(fin) /\ error' = "")
          =>
          (/\ pc' = "done"
           /\ out' = out
           /\ active' = active
           /\ decided' = decided
           /\ line_no' = line_no + 1)]_vars
    /\ [][pc = "done" => UNCHANGED <<pc, line_no, active, out, cb, decided>>]_vars
    /\ [](cancel_at # <<>> =>
            decided <= cancel_at[1] + (IF cancel_at[2] = "body" THEN 1 ELSE 0))

(* the flag was set while a line was being processed: that line was still   *)
(* decided, the next one was not, and further input remained               *)
C7_Witness ==
    /\ pc = "done"
    /\ cancel_at # <<>>
    /\ cancel_at[2] = "body"
    /\ decided = cancel_at[1] + 1
    /\ line_no = decided + 1
    /\ line_no < NumLines(fin)
    /\ (IncludedAt(line_no) \/ \E i \in BlockIdx : TriggersAt(i, line_no))

(* C8: what a cancelled run has written is a prefix, ending at a line       *)
(* boundary, of what the uncancelled run on the same input, rules and      *)
(* separator setting writes.                                               *)
C8_CancelledOutputIsPrefix ==
    (pc = "done" /\ cancel_event /\ decided < NumLines(fin))
    =>
    /\ IsPrefix(out, UncancelledOutput(rules, include_separators, fin))
    /\ (out # <<>> => out[Len(out)].kind = "line")

(* a run with separators was cancelled after writing something and before   *)
(* writing everything the full run writes                                  *)
C8_Witness ==
    /\ pc = "done"
    /\ cancel_event
    /\ decided < NumLines(fin)
    /\ include_separators
    /\ \E j \in 1..Len(out) : out[j].kind = "sep"
    /\ Len(out) < Len(UncancelledOutput(rules, include_separators, fin))

(* C9: in a run with a progress callback that ends by end of input or by    *)
(* cancellation, finished = true is passed exactly once, in the last call  *)
(* of the run, and on natural end of input that call's count is the total  *)
(* number of input lines.  (Before the loop is left no call has finished = *)
(* true; a run whose final call raised, or whose output file failed to     *)
(* close after it, has made that call too.)                                *)
C9_FinishedOnceAndLast ==
    progress_cb =>
        /\ \A j \in 1..(Len(cb) - 1) : ~cb[j].finished
        /\ pc # "done" /\ error \notin {"Exception(callback)", "OSError(close)"} =>
              \A j \in 1..Len(cb) : ~cb[j].finished
        /\ pc = "done" =>
              /\ cb # <<>>
              /\ cb[Len(cb)].finished
              /\ \A j \in 1..(Len(cb) - 1) : ~cb[j].finished
        /\ (pc = "done" /\ decided = NumLines(fin)) =>
              cb[Len(cb)].n = NumLines(fin)

(* a run over two whole reporting intervals reached the end of its input:   *)
(* two interim calls, then the final one                                   *)
C9_Witness ==
    /\ pc = "done"
    /\ progress_cb
    /\ decided = NumLines(fin)
    /\ NumLines(fin) = 2 * ProgressEvery
    /\ Len(cb) = 3

(* C10: finished = false calls are made exactly for the processed lines     *)
(* whose number is a multiple of the reporting interval, each with that    *)
(* line number, in increasing order, after that line's write; none is made *)
(* outside a loop body, so none for a line on which cancellation was seen. *)
C10_ProgressEveryInterval ==
    /\ [](/\ ~progress_cb => cb = <<>>
          /\ progress_cb =>
               /\ Cardinality({j \in 1..Len(cb) : ~cb[j].finished})
                    = decided \div ProgressEvery
               /\ \A j \in 1..Len(cb) :
                     ~cb[j].finished => cb[j].n = j * ProgressEvery)
    /\ [][BodyStep =>
            cb' = (IF progress_cb /\ line_no % ProgressEvery = 0
                   THEN Append(cb, [n |-> line_no, finished |-> FALSE,
                                    written |-> Len(out')])
                   ELSE cb)]_vars
    /\ [][pc # "body" =>
            \/ cb' = cb
            \/ /\ Len(cb') = Len(cb) + 1
               /\ SubSeq(cb', 1, Len(cb)) = cb
               /\ cb'[Len(cb')].finished]_vars

(* the line just before the first report opened a window: the report for    *)
(* line ProgressEvery was made after that line and the trigger were        *)
(* written, and the final call followed it                                 *)
C10_Witness ==
    /\ pc = "done"
    /\ progress_cb
    /\ Len(cb) = 2
    /\ cb[1] = [n |-> ProgressEvery, finished |-> FALSE, written |-> 2]
    /\ cb[2].finished

(***************************************************************************)
(* C11  separators                                                         *)
(***************************************************************************)

(* the number of separators in a sequence of writes *)
Separators(o) == Cardinality({j \in 1..Len(o) : o[j].kind = "sep"})

(* the rules whose trigger line k hits *)
RulesHitAt(k) == {i \in BlockIdx : TriggersAt(i, k)}

(* C11: with separators enabled, every loop body that handles a line       *)
(* hitting at least one trigger writes exactly one separator and then the  *)
(* line: a newline, then "----- BLOCK TRIGGER @ line N (matched K rule(s)) *)
(* -----", N being the 1-based number of the line and K the number of      *)
(* rules it hits; a loop body for any other line, and any loop body when   *)
(* separators are disabled, writes no separator.                           *)
C11_SeparatorPerTriggeringLine ==
    [][BodyStep =>
        LET k   == Cardinality(RulesHitAt(line_no))
            new == SubSeq(out', Len(out) + 1, Len(out'))
        IN  IF include_separators /\ k > 0
            THEN /\ Len(new) = 2
                 /\ new[1].kind = "sep"
                 /\ new[1].text = <<"\n", "----- BLOCK TRIGGER @ line ",
                                    ToString(line_no), " (matched ", ToString(k),
                                    " rule(s)) -----\n">>
                 /\ new[2] = Verbatim(LineAt(fin, line_no))
            ELSE Separators(new) = 0]_vars

(* a separator for line 2, hit by two rules, has been written, and the     *)
(* line after it *)
C11_Witness ==
    /\ pc = "poll"
    /\ include_separators
    /\ \E j \in 1..(Len(out) - 1) :
          /\ out[j].kind = "sep"
          /\ out[j].text[3] = "2"
          /\ out[j].text[5] = "2"
          /\ out[j + 1] = Verbatim(LineAt(fin, 2))

(***************************************************************************)
(* C12  the output without separators                                      *)
(***************************************************************************)

(* the lines of a file, as a sequence *)
FileLines(f) == [j \in 1..NumLines(f) |-> LineAt(f, j)]

RECURSIVE IsSubsequence(_, _)
(* s can be obtained from t by deleting elements *)
IsSubsequence(s, t) ==
    IF s = <<>> THEN TRUE
    ELSE IF t = <<>> THEN FALSE
    ELSE IF Head(s) = Head(t) THEN IsSubsequence(Tail(s), Tail(t))
    ELSE IsSubsequence(s, Tail(t))

(* the include patterns line k matches *)
IncludesMatchedAt(k) ==
    {j \in 1..Len(rules.include) : PatternHit(LineAt(fin, k), rules.include[j])}

(* C12: with separators off the output is a subsequence of the input       *)
(* lines: the writes are lines of the input read so far, in input order,   *)
(* and a loop body writes nothing or the line it handles, verbatim and     *)
(* once, however many include patterns and triggers the line matches and   *)
(* whether or not a window is open; no other step writes.                  *)
C12_OutputIsSubsequence ==
    /\ [](~include_separators =>
            IsSubsequence(out, Kept(FileLines(FirstLines(fin, line_no)))))
    /\ [][~include_separators =>
            IF pc = "body"
            THEN out' \in {out, Append(out, Verbatim(LineAt(fin, line_no)))}
            ELSE out' = out]_vars

(* line 2 matches two include patterns and two triggers while the window   *)
(* line 1 opened is open, and has been written once                        *)
C12_Witness ==
    /\ pc = "poll"
    /\ ~include_separators
    /\ decided = 2
    /\ Cardinality(IncludesMatchedAt(2)) = 2
    /\ Cardinality(RulesHitAt(2)) = 2
    /\ \E i \in RulesHitAt(1) : AfterOf(i) >= 1
    /\ out = <<Verbatim(LineAt(fin, 1)), Verbatim(LineAt(fin, 2))>>

(***************************************************************************)
(* C13  a line matching several triggers                                   *)
(***************************************************************************)

(* C13: when the line a loop body handles hits triggers, every rule whose  *)
(* trigger it hits, not only the first, has its countdown raised to the    *)
(* larger of its value and the rule's own after, so to its after at least; *)
(* the rules hit are exactly those whose trigger the line matches: the     *)
(* countdown of every other rule is left as it was.                        *)
C13_EveryMatchingRuleRaised ==
    [][BodyStep /\ RulesHitAt(line_no) # {} =>
        \A i \in BlockIdx :
            IF i \in RulesHitAt(line_no)
            THEN active'[i] >= AfterOf(i) /\ active'[i] = max(active[i], AfterOf(i))
            ELSE active'[i] = active[i]]_vars

(* the line just handled hit two rules with different positive after      *)
(* values, and each countdown stands at its own rule's after               *)
C13_Witness ==
    /\ pc = "poll"
    /\ decided = 1
    /\ Cardinality(RulesHitAt(1)) = 2
    /\ AfterOf(1) > 0 /\ AfterOf(2) > 0 /\ AfterOf(1) # AfterOf(2)
    /\ \A i \in BlockIdx : active[i] = AfterOf(i)

(***************************************************************************)
(* C14  a pattern that does not compile                                    *)
(***************************************************************************)

(* the patterns of the rule set that are no regular expression *)
BadPatterns ==
    {rules.include[j] : j \in {j \in 1..Len(rules.include) : ~ValidRegex(rules.include[j])}}
    \cup {rules.blocks[i].trigger :
             i \in {i \in BlockIdx : ~ValidRegex(rules.blocks[i].trigger)}}

(* C14: in Pattern mode, when an include pattern or a trigger does not     *)
(* compile, the call fails with the regular-expression error before the    *)
(* input is opened, before the output is created or truncated and before   *)
(* any callback; it never gets to a line.  The error arises nowhere else:  *)
(* not in Literal mode and not once line processing has begun.             *)
C14_CompileErrorBeforeAnyEffect ==
    /\ rules.regex /\ BadPatterns # {} =>
          /\ pc \in {"start", "raised"}
          /\ pc = "raised" => error = "re.error"
    /\ error = "re.error" =>
          /\ rules.regex /\ BadPatterns # {}
          /\ pc = "raised"
          /\ handles.fin = "unopened" /\ handles.fout = "unopened"
          /\ cb = <<>> /\ out = <<>>
          /\ line_no = 0 /\ decided = 0

(* the call has failed on a trigger that does not compile, the include     *)
(* pattern being a valid one                                               *)
C14_Witness ==
    /\ pc = "raised"
    /\ error = "re.error"
    /\ \E i \in BlockIdx : ~ValidRegex(rules.blocks[i].trigger)
    /\ \A j \in 1..Len(rules.include) : ValidRegex(rules.include[j])

(***************************************************************************)
(* C15  a file that cannot be opened                                       *)
(***************************************************************************)

(* C15: when the input cannot be opened the call fails before the output   *)
(* is created or truncated and before any callback; when the output cannot *)
(* be opened the call fails before any input line is read and before any   *)
(* callback.                                                               *)
C15_OpenErrorBeforeAnyEffect ==
    /\ error = "OSError(input)" =>
          /\ pc = "raised"
          /\ handles.fout = "unopened"
          /\ cb = <<>> /\ out = <<>>
    /\ error = "OSError(output)" =>
          /\ pc = "raised"
          /\ line_no = 0 /\ decided = 0
          /\ cb = <<>> /\ out = <<>>

(* a call given a callback and a non-empty input has failed to open its    *)
(* output                                                                  *)
C15_Witness ==
    /\ pc = "raised"
    /\ error = "OSError(output)"
    /\ progress_cb
    /\ NumLines(fin) > 0

(***************************************************************************)
(* C16  an I/O error while streaming                                       *)
(***************************************************************************)

(* the I/O errors of the streaming: a read of the input, a write to the    *)
(* output, and the write of the buffered output when the file is closed    *)
StreamErrors == {"OSError(read)", "OSError(write)", "OSError(close)"}

(* C16: an I/O error while streaming aborts the run.  The step that fails  *)
(* keeps everything written before it and makes no callback; the error     *)
(* leaves the call, after which no line is read or written, nothing is     *)
(* retried or rolled back and no callback is made; a failed run has        *)
(* delivered no finished=true callback.                                    *)
C16_StreamErrorAborts ==
    /\ [](error \in StreamErrors =>
            /\ pc = "raised"
            /\ \A j \in 1..Len(cb) : ~cb[j].finished)
    /\ [][error' \in StreamErrors /\ error = "" =>
            /\ pc' = "raised"
            /\ IsPrefix(out, out')
            /\ Len(out') < Len(out) + 2
            /\ cb' = cb
            /\ line_no' = line_no]_vars
    /\ [][pc = "raised" =>
            UNCHANGED <<pc, error, line_no, active, out, cb, decided, handles>>]_vars

(***************************************************************************)
(* C17  the completion message of the front-ends                           *)
(***************************************************************************)

(* the front-end has shown the outcome of its latest run: the done signal  *)
(* of every run started has been emitted and delivered                     *)
OutcomeShown ==
    /\ status.front # ""
    /\ status.started > 0
    /\ status.emitted = status.started
    /\ status.queue = <<>>

(* C17: when a front-end has shown the outcome of its run, the status      *)
(* reads Completed, Cancelled or Error, Error exactly when the call        *)
(* raised and Cancelled only when the cancel event is set, and the status  *)
(* or the message that goes with it carries the number of lines processed. *)
C17_OutcomeCarriesLineCount ==
    OutcomeShown =>
        /\ status.text[1] \in {"Completed", "Cancelled", "Error"}
        /\ status.text[1] = "Error" <=> pc = "raised"
        /\ status.text[1] = "Cancelled" => cancel_event
        /\ \/ \E j \in 1..Len(status.text) : status.text[j] = Grouped(decided)
           \/ \E j \in 1..Len(status.box) : status.box[j] = Grouped(decided)

(***************************************************************************)
(* C18  two concurrent calls on one Rules object                           *)
(***************************************************************************)

RECURSIVE CountdownsAlone(_, _, _)
(* the countdowns of a call running alone on f after k lines *)
CountdownsAlone(rs, f, k) ==
    IF k = 0 THEN [i \in 1..Len(rs.blocks) |-> 0]
    ELSE BlockActive(rs, CountdownsAlone(rs, f, k - 1), LineAt(f, k))

(* the output of a call running alone on the first k lines of f *)
OutputAlone(rs, sep, f, k) == UncancelledOutput(rs, sep, FirstLines(f, k))

(* the call c is where it would be running alone: between two lines its    *)
(* line counter is the number of lines it has decided, its countdowns and  *)
(* its output are those of a run on these lines without the other call;    *)
(* when it has returned it has written the output of the whole input; when *)
(* it has raised it has written a part of that output                      *)
AsAlone(c) ==
    /\ c.pc \in {"poll", "body", "done"} =>
          /\ c.decided = (IF c.pc = "body" THEN c.line_no - 1 ELSE c.line_no)
          /\ c.active = CountdownsAlone(rules, c.fin, c.decided)
          /\ c.out = OutputAlone(rules, include_separators, c.fin, c.decided)
    /\ c.pc = "done" =>
          /\ c.decided = NumLines(c.fin)
          /\ c.out = UncancelledOutput(rules, include_separators, c.fin)
    /\ c.pc = "raised" =>
          IsPrefix(c.out, UncancelledOutput(rules, include_separators, c.fin))

(* C18: two calls interleaved step by step on different inputs and outputs *)
(* and one Rules object each produce the output they produce alone,        *)
(* whatever becomes of the other call: at every moment the line counter,   *)
(* the countdowns and the output of each are those of a run alone, and no  *)
(* step changes the Rules object.                                          *)
C18_ConcurrentCallsIndependent ==
    /\ [](peer.pc # "absent" => AsAlone(ThisCall) /\ AsAlone(peer))
    /\ [][rules' = rules]_vars

(* both calls are inside their loops, on different inputs and at different *)
(* lines, each with lines decided; a countdown of the one is open and that *)
(* of the other is closed                                                  *)
C18_Witness ==
    /\ pc = "body"
    /\ peer.pc = "poll"
    /\ decided > 0
    /\ peer.decided > 0
    /\ line_no # peer.line_no
    /\ fin # peer.fin
    /\ \E i \in BlockIdx : active[i] > 0 /\ peer.active[i] = 0

(***************************************************************************)
(* C19  the same call made twice                                           *)
(***************************************************************************)

(* C19: a call made twice on the same input, rule set and separator        *)
(* setting, neither run cancelled, writes the same output both times and   *)
(* makes the same progress calls in the same order.                        *)
C19_SecondRunIdentical ==
    pc = "done" /\ peer.pc = "done" =>
        /\ peer.fin = fin /\ peer.output_path = output_path
        /\ out = peer.out
        /\ cb = peer.cb

(* both runs of a call that wrote a separator and made an interim          *)
(* progress call have returned                                             *)
C19_Witness ==
    /\ pc = "done"
    /\ peer.pc = "done"
    /\ Len(cb) > 1
    /\ Separators(out) > 0
    /\ Len(peer.out) > 1

(***************************************************************************)
(* C20  the order of the rules                                             *)
(***************************************************************************)

(* the sequences with the elements of s in another order *)
Reorderings(s) ==
    {[i \in 1..Len(s) |-> s[f[i]]] : f \in Permutations(1..Len(s))}

(* C20: the output of a run that reached the end of its input is the       *)
(* output of the run on the same input and separator setting under every   *)
(* rule set that has the same include patterns and the same blocks (each   *)
(* trigger with its after) in another order.                               *)
C20_RuleOrderIrrelevant ==
    pc = "done" /\ decided = NumLines(fin) =>
        \A inc \in Reorderings(rules.include), blocks \in Reorderings(rules.blocks) :
            UncancelledOutput(Rules(inc, blocks, rules.regex), include_separators, fin)
                = out

(* a run with separators under two include patterns and two blocks of      *)
(* different after has ended, having written a separator for a line that   *)
(* hits both triggers                                                      *)
C20_Witness ==
    /\ pc = "done"
    /\ decided = NumLines(fin)
    /\ include_separators
    /\ Len(rules.include) = 2 /\ rules.include[1] # rules.include[2]
    /\ Len(rules.blocks) = 2 /\ AfterOf(1) # AfterOf(2)
    /\ \E j \in 1..Len(out) : out[j].kind = "sep" /\ out[j].matched = 2

(***************************************************************************)
(* C21  one matching strategy per run                                      *)
(***************************************************************************)

(* C21: the mode of the rule set does not change during a run, and every   *)
(* loop body decides with it alone: with Match(p) being "p is a contiguous *)
(* substring of the line" in Literal mode and "a regular-expression search *)
(* for p finds an occurrence in the line" in Pattern mode, for the include *)
(* patterns and the triggers alike, the line is written iff an include     *)
(* pattern matches, a trigger matches or a window is open, the rules       *)
(* raised are those whose trigger matches, and the separator counts them.  *)
C21_OneMatchingStrategy ==
    /\ [][rules'.regex = rules.regex]_vars
    /\ [][BodyStep =>
            LET line     == LineAt(fin, line_no)
                Match(p) == IF rules.regex THEN RegexSearch(line, p)
                            ELSE Contains(line, p)
                inc      == \E j \in 1..Len(rules.include) : Match(rules.include[j])
                hit      == {i \in BlockIdx : Match(rules.blocks[i].trigger)}
                open     == \E i \in BlockIdx : active[i] > 0
            IN  /\ out' # out <=> (inc \/ hit # {} \/ open)
                /\ \A i \in hit : active'[i] >= AfterOf(i)
                /\ hit # {} => \A i \in BlockIdx \ hit : active'[i] = active[i]
                /\ hit = {} /\ ~open => active' = active
                /\ hit # {} /\ include_separators =>
                       out'[Len(out) + 1].matched = Cardinality(hit)]_vars

(* a Literal-mode run whose pattern is "." has ended: it kept the line "." *)
(* and did not keep the line "x"                                           *)
C21_Witness ==
    /\ pc = "done"
    /\ ~rules.regex
    /\ rules.include = <<ln_dot>>
    /\ FileLines(fin) = <<ln_dot, ln_x>>
    /\ out = <<Verbatim(ln_dot)>>

(***************************************************************************)
(* C22  the value returned                                                 *)
(***************************************************************************)

(* C22: a call that has returned has handed its caller a summary holding   *)
(* the number of lines scanned and whether the run was cancelled.          *)
C22_ReturnsSummary ==
    pc = "done" =>
        \E summary \in result :
            /\ summary.lines = line_no
            /\ summary.cancelled = cancel_event

(***************************************************************************)
(* C23  termination                                                        *)
(***************************************************************************)

(* the call has returned or raised *)
Ended == pc \in {"done", "raised"}

(* C23: every run ends.  The run is one pass: the line counter moves       *)
(* forward one line at a time, a line is decided once at most, and a run   *)
(* that returns without having seen the flag has decided every line of the *)
(* input exactly once.  Nothing but the cancellation flag makes the call   *)
(* return with input lines undecided.                                      *)
C23_RunTerminates ==
    /\ <>Ended
    /\ [][/\ line_no' \in {line_no, line_no + 1}
          /\ decided' \in {decided, decided + 1}
          /\ decided' = decided + 1 => line_no' = line_no /\ decided' = line_no]_vars
    /\ [](decided <= line_no /\ line_no <= NumLines(fin))
    /\ [](pc = "done" /\ ~cancel_event =>
             decided = NumLines(fin) /\ line_no = NumLines(fin))
    /\ [](pc = "done" /\ decided < NumLines(fin) => cancel_event)

(* a run on an input of the largest size has returned at the end of its    *)
(* input, every line decided, the flag clear                               *)
C23_Witness ==
    /\ pc = "done"
    /\ ~cancel_event
    /\ NumLines(fin) = MaxLines
    /\ decided = MaxLines

(***************************************************************************)
(* C24  the command line with a Rule Set document                          *)
(***************************************************************************)

(* the exceptions main can raise before it calls extract_file *)
CliErrors ==
    {"ValueError", "FileNotFoundError", "IsADirectoryError", "JSONDecodeError",
     "UnicodeDecodeError", "AttributeError", "TypeError", "KeyError",
     "OverflowError"}

(* main has built the rules and called extract_file *)
RulesBuilt == pc # "cli" /\ error \notin CliErrors

(* the command line names a Rule Set document *)
DocumentGiven == argv # NoArgv /\ argv.config # None /\ ConfigFile(argv).path # <<>>

(* the document --config names, as json.load returns it *)
TheDoc == ConfigFile(argv).data

(* the value of a member of the object d, null when d has no such member *)
Field(d, key) ==
    IF \E j \in 1..Len(d.o) : d.o[j].k = key
    THEN d.o[CHOOSE j \in 1..Len(d.o) : d.o[j].k = key].v
    ELSE JNull

(* the same command line without --include, --block, --after and --regex *)
OptionsRemoved(a) ==
    [a EXCEPT !.include = <<>>, !.block = <<>>, !.after = DefaultAfter, !.regex = FALSE]

(* C24: when the command line names a Rule Set document, the rule set of   *)
(* the run is the document's: its include patterns, its block triggers     *)
(* with the after the document gives them, and its mode, whatever          *)
(* --include, --block, --after and --regex say: the rules are those of the *)
(* same command line without these options, and when main raises before    *)
(* the engine is called it is on the document, never on a --block that     *)
(* cannot be read.                                                         *)
C24_ConfigOverridesOptions ==
    DocumentGiven =>
        /\ pc = "raised" /\ error \in CliErrors =>
              error = cli_rules_error(OptionsRemoved(argv))
        /\ RulesBuilt =>
              /\ rules = cli_rules(OptionsRemoved(argv))
              /\ Field(TheDoc, k_include).t = "list" =>
                    /\ Len(rules.include) = Len(Field(TheDoc, k_include).l)
                    /\ \A j \in 1..Len(rules.include) :
                          rules.include[j] = Field(TheDoc, k_include).l[j].s
              /\ Field(TheDoc, k_include).t = "null" => rules.include = <<>>
              /\ Field(TheDoc, k_regex).t = "bool" => rules.regex = Field(TheDoc, k_regex).b
              /\ Field(TheDoc, k_blocks).t = "null" => rules.blocks = <<>>
              /\ Field(TheDoc, k_blocks).t = "list" =>
                    /\ Len(rules.blocks) = Len(Field(TheDoc, k_blocks).l)
                    /\ \A i \in 1..Len(rules.blocks) :
                          LET b == Field(TheDoc, k_blocks).l[i]
                          IN  /\ rules.blocks[i].trigger = Field(b, k_trigger).s
                              /\ Field(b, k_after).t = "int" =>
                                    rules.blocks[i].after = Field(b, k_after).i

(* a run has ended whose command line named a Literal-mode document and    *)
(* gave --include, a --block with a count that is no integer and --regex   *)
C24_Witness ==
    /\ pc = "done"
    /\ DocumentGiven
    /\ Field(TheDoc, k_regex) = JBool(FALSE)
    /\ argv.regex
    /\ argv.include # <<>>
    /\ \E i \in 1..Len(argv.block) : parse_block_fails(argv.block[i])
    /\ out # <<>>

(***************************************************************************)
(* C25  loading a Rule Set document                                        *)
(***************************************************************************)

(* the member of the object d is missing or null *)
Absent(d, key) == Field(d, key).t = "null"

(* C25: the rule set loaded from a document has, in the document's order,  *)
(* the document's include patterns and one block per block of the          *)
(* document, with the same trigger; a block without "after" has after =    *)
(* 100; a missing or null "include" or "blocks" gives the empty sequence   *)
(* and a missing "regex" gives Literal mode.                               *)
C25_DocumentDefaults ==
    DocumentGiven /\ RulesBuilt =>
        LET d == TheDoc
        IN  /\ Absent(d, k_include) => rules.include = <<>>
            /\ Field(d, k_include).t = "list" =>
                  /\ Len(rules.include) = Len(Field(d, k_include).l)
                  /\ \A j \in 1..Len(rules.include) :
                        rules.include[j] = Field(d, k_include).l[j].s
            /\ Absent(d, k_blocks) => rules.blocks = <<>>
            /\ Field(d, k_blocks).t = "list" =>
                  /\ Len(rules.blocks) = Len(Field(d, k_blocks).l)
                  /\ \A i \in 1..Len(rules.blocks) :
                        LET b == Field(d, k_blocks).l[i]
                        IN  /\ rules.blocks[i].trigger = Field(b, k_trigger).s
                            /\ (\A j \in 1..Len(b.o) : b.o[j].k # k_after) =>
                                  rules.blocks[i].after = 100
            /\ (\A j \in 1..Len(d.o) : d.o[j].k # k_regex) => ~rules.regex

(* a run has ended on the rules of a document whose second block has no    *)
(* "after": the two blocks are in the document's order and the second has  *)
(* after = 100                                                             *)
C25_Witness ==
    /\ pc = "done"
    /\ DocumentGiven
    /\ Field(TheDoc, k_blocks).t = "list"
    /\ LET bl == Field(TheDoc, k_blocks).l
       IN  /\ Len(bl) = 2
           /\ Field(bl[1], k_after).t = "int"
           /\ \A j \in 1..Len(bl[2].o) : bl[2].o[j].k # k_after
           /\ rules.blocks = <<Block(Field(bl[1], k_trigger).s, Field(bl[1], k_after).i),
                               Block(Field(bl[2], k_trigger).s, 100)>>
    /\ Len(rules.include) = 2

(***************************************************************************)
(* C26  the countdown of a rule on a line that is not its trigger          *)
(***************************************************************************)

(* C26: for every block rule i and every loop body whose line does not     *)
(* match the trigger of i, whatever other rules there are: an open         *)
(* countdown of i keeps the line and is one less after it, a countdown at  *)
(* 0 stays at 0.                                                           *)
C26_CountdownSpentPerLine ==
    [][BodyStep =>
        \A i \in BlockIdx :
            ~TriggersAt(i, line_no) =>
                IF active[i] > 0
                THEN /\ out' # out
                     /\ out'[Len(out')] = Verbatim(LineAt(fin, line_no))
                     /\ active'[i] = active[i] - 1
                ELSE active'[i] = 0]_vars

(***************************************************************************)
(* C27  which countdowns a line changes                                    *)
(***************************************************************************)

(* C27: a loop body whose line hits a trigger changes the countdowns of    *)
(* the rules hit and of no other rule; a countdown is lowered only by a    *)
(* line that hits no trigger at all; and a line kept for its include match *)
(* alone, with every countdown at 0, changes no countdown.                 *)
C27_OnlyHitRulesChange ==
    [][BodyStep =>
        /\ \A i \in BlockIdx :
              /\ active'[i] # active[i] /\ RulesHitAt(line_no) # {} =>
                    i \in RulesHitAt(line_no)
              /\ active'[i] < active[i] => RulesHitAt(line_no) = {}
        /\ (/\ IncludedAt(line_no)
            /\ RulesHitAt(line_no) = {}
            /\ \A i \in BlockIdx : active[i] = 0) => active' = active]_vars

(* line 2 hit the first rule while the window line 1 opened for the second *)
(* rule was open: that countdown stands where it stood                     *)
C27_Witness ==
    /\ pc = "poll"
    /\ decided = 2
    /\ Len(rules.blocks) = 2
    /\ RulesHitAt(1) = {2}
    /\ RulesHitAt(2) = {1}
    /\ AfterOf(2) > 0
    /\ active[2] = AfterOf(2)

(***************************************************************************)
(* C28  the range of a countdown                                           *)
(***************************************************************************)

(* C28: every countdown is at least 0 and at most the larger of 0 and its  *)
(* rule's after; before the first line every countdown is 0; and the       *)
(* countdown of a rule with a negative after is 0 throughout, so that its  *)
(* trigger line is written and no line is kept for a window of that rule.  *)
C28_CountdownRange ==
    /\ [](\A i \in 1..Len(active) :
             /\ 0 <= active[i]
             /\ active[i] <= max(0, AfterOf(i))
             /\ AfterOf(i) < 0 => active[i] = 0)
    /\ [](pc \in {"poll", "body"} /\ decided = 0 =>
             active = [i \in BlockIdx |-> 0])
    /\ [][BodyStep =>
             \A i \in RulesHitAt(line_no) :
                 out'[Len(out')] = Verbatim(LineAt(fin, line_no))]_vars

(* the trigger of a rule with a negative after hit line 1: the line was    *)
(* written, the line after it was not, and the countdown stands at 0 while *)
(* the other rule's window is open                                         *)
C28_Witness ==
    /\ pc = "poll"
    /\ decided = 3
    /\ \E i \in BlockIdx :
          /\ AfterOf(i) < 0
          /\ RulesHitAt(1) = {i}
          /\ active[i] = 0
    /\ RulesHitAt(2) = {}
    /\ RulesHitAt(3) # {}
    /\ \E i \in BlockIdx : active[i] > 0
    /\ out = <<Verbatim(LineAt(fin, 1)), Verbatim(LineAt(fin, 3))>>

(***************************************************************************)
(* C29  a re-trigger restarts the window at its full length                *)
(***************************************************************************)

(* C29: after a loop body whose line hits the trigger of a rule with after *)
(* >= 0, the countdown of that rule equals its after; no countdown ever    *)
(* exceeds its rule's after, so a hit never finds a remaining countdown    *)
(* longer than after to preserve.                                          *)
C29_HitSetsCountdownToAfter ==
    /\ [][BodyStep =>
            \A i \in RulesHitAt(line_no) :
                AfterOf(i) >= 0 => active'[i] = AfterOf(i)]_vars
    /\ [](\A i \in 1..Len(active) : ~(AfterOf(i) >= 0 /\ active[i] > AfterOf(i)))

(* a rule was hit at line 1, its window was partly spent by line 2, and    *)
(* the hit at line 3 has put the countdown back to after                   *)
C29_Witness ==
    /\ pc = "poll"
    /\ decided = 3
    /\ \E i \in BlockIdx :
          /\ i \in RulesHitAt(1)
          /\ i \in RulesHitAt(3)
          /\ AfterOf(i) >= 2
          /\ active[i] = AfterOf(i)
    /\ RulesHitAt(2) = {}

(***************************************************************************)
(* C30  file handles at the end of a call                                  *)
(***************************************************************************)

(* C30: when the call has returned or raised, on any exit path (end of     *)
(* input, cancellation, an exception while streaming or inside a callback, *)
(* failure to open the output), no file object the call opened is still    *)
(* open.                                                                   *)
C30_HandlesClosedOnExit ==
    Ended => handles.fin # "open" /\ handles.fout # "open"

(***************************************************************************)
(* A session of a front-end: the window is idle, the user presses Run and  *)
(* Cancel, runs follow one another.  status carries, besides the texts,    *)
(* the two buttons, the number of worker threads started and of calls of   *)
(* extract_file that have returned to their worker, the done signals       *)
(* emitted and those not yet delivered to the window (queue), the progress *)
(* signals delivered (progressed), and the runs during which Cancel was    *)
(* pressed (cancels).  The progress signals a worker has emitted are the   *)
(* calls of its callback with finished false, in cb; those not delivered   *)
(* yet are ahead of the done signal in the queue of the window's thread.   *)
(* For the TUI, status.form holds what the widgets and the App hold: the   *)
(* values of the two Input widgets, the lists includes and blocks, whether *)
(* textual_fspicker could be imported, and the modal screen on top, if     *)
(* any; status.box is the latest message written to the log, and           *)
(* status.raised the exception that left a handler, on which Textual ends  *)
(* the App.  pc = "idle" when no call of extract_file has been made yet.   *)
(***************************************************************************)

(* runs of one session *)
MaxRuns == 2

(* items of a list of the TUI *)
MaxItems == 2

(* variant of set_running: the Run button is left enabled *)
set_running_run_enabled(s, running) ==
    [s EXCEPT !.running = running, !.run_btn = TRUE, !.cancel_btn = running]

(* MainWindow.set_running, LogExtractorTUI._set_running *)
set_running(s, running) ==
    [s EXCEPT !.running = running, !.run_btn = ~running, !.cancel_btn = running]

(* what the widgets hold when Run is pressed in the Qt window *)
SessionCalls ==
    {[rules |-> r, fin |-> ShortFile(ls)] :
        r \in {Rules(<<>>, <<Block(ln_a, 1)>>, FALSE),
               Rules(<<ln_a>>, <<>>, FALSE),
               Rules(<<ln_paren>>, <<>>, TRUE)},
        ls \in {<<>>, <<ln_a>>, <<ln_a, ln_x>>}}

(* the same for an input long enough for a progress signal *)
LongSessionCalls ==
    {[rules |-> Rules(<<>>, <<Block(ln_a, 1)>>, FALSE),
      fin |-> File(<<ln_a>>, ln_x, ProgressEvery - 1, <<>>)]}

(* on_mount, lines 241-247: the lists the TUI starts with *)
DefaultInclude ==
    <<"L", "o", "g", "T", "e", "m", "p", ":", " ", "[", "P", "n", "P",
      "]">>

DefaultTrigger ==
    <<"L", "o", "g", "T", "e", "m", "p", ":", " ", "=", "=", "=", " ",
      "D", "e", "b", "u", "g", "L", "o", "g", "S", "h", "a", "r", "e",
      "d", "T", "a", "g", "P", "o", "s", "i", "t", "i", "o", "n", "s">>

(* no modal screen is on top *)
NoScreen == [kind |-> "", idx |-> 0]

(* the widgets of the TUI after compose and on_mount: the Input widgets    *)
(* empty, the two lists with one item each                                 *)
Mounted(picker) ==
    [input_path |-> <<>>, output_path |-> <<>>,
     includes |-> <<DefaultInclude>>,
     blocks |-> <<Block(DefaultTrigger, DefaultAfter)>>,
     picker |-> picker, screen |-> NoScreen]

(* the Qt window has no such widgets *)
NoForm ==
    [input_path |-> <<>>, output_path |-> <<>>, includes |-> <<>>, blocks |-> <<>>,
     picker |-> FALSE, screen |-> NoScreen]

(* on_mount, lines 252-256: the message written to the log *)
MountMessage(picker) ==
    <<"Loaded tui.py from: ", "__file__", "\nTextual: ", "__version__",
      "\ntextual-fspicker: ", IF picker THEN "available" ELSE "missing">>

(* MainWindow.__init__ (status "Idle", Cancel disabled, lines 225-232),    *)
(* LogExtractorTUI with ExtractState(False) after compose and on_mount:    *)
(* the front-end is idle                                                   *)
Idle(front, form) ==
    [front |-> front, running |-> FALSE, text |-> <<"Idle">>,
     box |-> IF front = "tui" THEN MountMessage(form.picker) ELSE <<>>,
     run_btn |-> TRUE, cancel_btn |-> FALSE, form |-> form, started |-> 0,
     returned |-> 0, emitted |-> 0, queue |-> <<>>, progressed |-> 0,
     cancels |-> {}, raised |-> ""]

InitSession ==
    /\ rules = NoRules
    /\ fin = ShortFile(<<>>)
    /\ include_separators = FALSE
    /\ progress_cb = TRUE
    /\ output_path = OutPath
    /\ cancel_event = FALSE
    /\ pc = "idle"
    /\ line_no = 0
    /\ active = <<>>
    /\ out = <<>>
    /\ cb = <<>>
    /\ decided = 0
    /\ cancel_at = <<>>
    /\ error = ""
    /\ handles = Unopened
    /\ result = Pending
    /\ argv = NoArgv
    /\ peer = NoPeer
    /\ \/ status = Idle("qt", NoForm)
       \/ \E picker \in BOOLEAN : status = Idle("tui", Mounted(picker))

(* the calls a click of Run may make in the window s, with the state of    *)
(* the separators checkbox: the sessions explored have the long input in a *)
(* run started in a window just opened, without separators                 *)
CallsOfRun(s) ==
    {[call |-> c, sep |-> sep] : c \in SessionCalls, sep \in BOOLEAN}
    \cup (IF s = Idle("qt", NoForm)
          THEN {[call |-> c, sep |-> FALSE] : c \in LongSessionCalls}
          ELSE {})

(* a new call of extract_file on a new thread *)
WorkerStarts(c, sep) ==
    /\ rules' = c.rules
    /\ fin' = c.fin
    /\ include_separators' = sep
    /\ progress_cb' = TRUE
    /\ output_path' = OutPath
    /\ pc' = "start"
    /\ line_no' = 0
    /\ active' = <<>>
    /\ out' = <<>>
    /\ cb' = <<>>
    /\ decided' = 0
    /\ cancel_at' = <<>>
    /\ error' = ""
    /\ handles' = Unopened
    /\ result' = Pending

(* variant of start: the event is left as the last run left it *)
startWithoutClear ==
    /\ status.front = "qt"
    /\ status.run_btn
    /\ status.started < MaxRuns
    /\ \E r \in CallsOfRun(status) : WorkerStarts(r.call, r.sep)
    /\ cancel_event' = cancel_event
    /\ status' = [set_running(status, TRUE) EXCEPT
                     !.text = <<"Running...">>,
                     !.started = status.started + 1,
                     !.progressed = 0]
    /\ UNCHANGED <<peer, argv>>

(* MainWindow.start on a click of Run, which Qt delivers only while the    *)
(* button is enabled, paths and rules given: the event is cleared, the     *)
(* buttons switched, and a worker started                                  *)
start ==
    /\ status.front = "qt"
    /\ status.run_btn
    /\ status.started < MaxRuns
    /\ \E r \in CallsOfRun(status) : WorkerStarts(r.call, r.sep)
    /\ cancel_event' = FALSE
    /\ status' = [set_running(status, TRUE) EXCEPT
                     !.text = <<"Running...">>,
                     !.started = status.started + 1,
                     !.progressed = 0]
    /\ UNCHANGED <<peer, argv>>

(* MainWindow.start, lines 371-386: a path or the rules are missing; a     *)
(* warning is shown and nothing starts                                     *)
startRefused ==
    /\ status.front = "qt"
    /\ status.run_btn
    /\ \E w \in {"Missing input", "Missing output", "No rules"} :
          status' = [status EXCEPT !.box = <<w>>]
    /\ UNCHANGED <<args, peer, argv, result, cancel_event, pc, line_no, active, out, cb,
                   decided, cancel_at, error, handles>>

(* MainWindow.cancel on a click of Cancel, delivered only while the button *)
(* is enabled                                                              *)
cancel ==
    /\ status.front = "qt"
    /\ status.cancel_btn
    /\ cancel_event' = TRUE
    /\ cancel_at' = IF cancel_event THEN cancel_at ELSE <<decided, pc>>
    /\ status' = [status EXCEPT !.text = <<"Cancelling...">>,
                                !.cancels = status.cancels \cup {status.started}]
    /\ UNCHANGED <<args, peer, argv, result, pc, line_no, active, out, cb, decided, error,
                   handles>>

(* the calls of cb in ExtractWorker.run that emitted the progress signal   *)
(* (lines 86-90): those with finished false                                *)
IsInterim(c) == ~c.finished

ProgressSignals == SelectSeq(cb, IsInterim)

(* MainWindow.on_progress on the progress signal that is next in the queue *)
on_progress ==
    /\ status.front = "qt"
    /\ status.progressed < Len(ProgressSignals)
    /\ status' = [status EXCEPT
                     !.progressed = status.progressed + 1,
                     !.text = <<"Running... processed ",
                                Grouped(ProgressSignals[status.progressed + 1].n),
                                " lines">>]
    /\ UNCHANGED <<args, peer, argv, result, cancel_event, pc, line_no, active, out, cb,
                   decided, cancel_at, error, handles>>

(* the done signal ExtractWorker.run emits *)
DoneSignal ==
    IF pc = "raised"
    THEN [lines |-> last, cancelled |-> FALSE, msg |-> <<"Error: ", error>>]
    ELSE [lines |-> last, cancelled |-> cancel_event,
          msg |-> <<IF cancel_event THEN "Cancelled" ELSE "Completed">>]

(* ExtractWorker.run, lines 100-105: extract_file has returned or raised;  *)
(* the event is read and the done signal emitted, to be delivered to the   *)
(* window's thread                                                         *)
ExtractWorker_run ==
    /\ status.front = "qt"
    /\ pc \in {"done", "raised"}
    /\ status.returned < status.started
    /\ status' = [status EXCEPT !.returned = status.returned + 1,
                                !.emitted = status.emitted + 1,
                                !.queue = Append(status.queue, DoneSignal)]
    /\ UNCHANGED <<args, peer, argv, result, cancel_event, pc, line_no, active, out, cb,
                   decided, cancel_at, error, handles>>

(* variant of on_done: the buttons are switched back only for a run that   *)
(* did not fail                                                            *)
on_done_error_stays_running ==
    /\ status.front = "qt"
    /\ status.queue # <<>>
    /\ status.progressed = Len(ProgressSignals)
    /\ LET sig == Head(status.queue)
           s   == [status EXCEPT !.queue = Tail(status.queue)]
       IN  status' =
             IF sig.msg[1] = "Error: "
             THEN [s EXCEPT !.text = <<"Error">>, !.box = sig.msg]
             ELSE [set_running(s, FALSE) EXCEPT
                      !.text = sig.msg \o <<". Processed ", Grouped(sig.lines), " lines",
                                            IF sig.cancelled THEN " (cancelled)" ELSE "",
                                            ".">>]
    /\ UNCHANGED <<args, peer, argv, result, cancel_event, pc, line_no, active, out, cb,
                   decided, cancel_at, error, handles>>

(* MainWindow.on_done on a done signal, which the window's thread gets     *)
(* after the progress signals emitted before it                            *)
on_done ==
    /\ status.front = "qt"
    /\ status.queue # <<>>
    /\ status.progressed = Len(ProgressSignals)
    /\ LET sig == Head(status.queue)
           s   == set_running([status EXCEPT !.queue = Tail(status.queue)], FALSE)
       IN  status' =
             IF sig.msg[1] = "Error: "
             THEN [s EXCEPT !.text = <<"Error">>, !.box = sig.msg]
             ELSE [s EXCEPT
                      !.text = sig.msg \o <<". Processed ", Grouped(sig.lines), " lines",
                                            IF sig.cancelled THEN " (cancelled)" ELSE "",
                                            ".">>]
    /\ UNCHANGED <<args, peer, argv, result, cancel_event, pc, line_no, active, out, cb,
                   decided, cancel_at, error, handles>>

(* what the user types into the dialog "Edit N" of the Qt window *)
EditNTexts == {<<"2">>, <<" ", "1", "0">>, <<>>, <<"a", "b", "c">>, <<"1", ".", "5">>}

(* TextPrompt.get of gui_qt.py: the text of the line edit, stripped *)
TextPrompt_get(text) == Strip(text)

(* MainWindow.edit_block, lines 313-341, up to its last two lines: TRUE    *)
(* iff the warning is shown.  The call returns with nothing done when no   *)
(* row is selected (currentRow() is -1), when a dialog is dismissed and    *)
(* when the trigger is left empty; it shows the warning when int() does    *)
(* not read the text given for N.                                          *)
edit_block_warns(r, accepted, new_trigger, after_accepted, n) ==
    IF r < 0 \/ ~accepted \/ TextPrompt_get(new_trigger) = <<>> \/ ~after_accepted
    THEN FALSE
    ELSE ~IsInt(TextPrompt_get(n))

(* the outcomes of edit_block over what the user may select and type *)
EditBlockOutcomes ==
    {edit_block_warns(r, accepted, new_trigger, after_accepted, n) :
        r \in {0 - 1, 0}, accepted \in BOOLEAN, new_trigger \in {<<>>, ln_a},
        after_accepted \in BOOLEAN, n \in EditNTexts}

(* MainWindow.edit_block on a click of Edit under the block table, which   *)
(* the window takes whether a run is going on or not.  Where it shows no   *)
(* warning it returns or writes the row of the table; the table is read    *)
(* again by the next click of Run, as the inputs of start, so of what the  *)
(* model holds the call changes the window's latest message box only.      *)
edit_block ==
    /\ status.front = "qt"
    /\ \E warns \in EditBlockOutcomes :
          status' = IF warns THEN [status EXCEPT !.box = <<"Invalid N">>] ELSE status
    /\ UNCHANGED <<args, peer, argv, result, cancel_event, pc, line_no, active, out, cb,
                   decided, cancel_at, error, handles>>

(* what no handler of the TUI changes unless it starts a run *)
engine == <<args, result, cancel_event, pc, line_no, active, out, cb, decided,
            cancel_at, error, handles>>

(* a handler of the main screen of the TUI can run: the App has not ended  *)
(* on an exception, and no modal screen takes the input                    *)
TuiReady ==
    /\ status.front = "tui"
    /\ status.raised = ""
    /\ status.form.screen = NoScreen

(* a modal screen of one of the kinds is on top *)
TuiScreen(kinds) ==
    /\ status.front = "tui"
    /\ status.raised = ""
    /\ status.form.screen.kind \in kinds

(* self._log(msg) *)
Logged(msg) == [status EXCEPT !.box = msg]

(* the paths the user types or picks: none, a file that is there, the same *)
(* between quotes and blanks, a file that is not there                     *)
a_log == <<"a", ".", "l", "o", "g">>
PathTexts ==
    {<<>>, a_log, <<" ", "\"", " ">> \o a_log \o <<"\"">>, <<"'", "g", "'">>}

(* Path(p).exists() *)
Exists(p) == p = a_log

(* what the user types into a prompt: blanks, a pattern with a blank       *)
(* before it, a pattern                                                    *)
PromptTexts == {<<" ">>, <<" ", "a">>, ln_x}

(* what the user types into the field "Lines after trigger (N)" *)
AfterTexts == {<<" ", "1">>, <<"1", ".", "5">>}

(* the index a list widget reports: None, or a number, which may lie       *)
(* outside the list                                                        *)
Selections == {None} \cup {{i} : i \in (0 - 1)..MaxItems}

(* _clean_path *)
clean_path(p) ==
    LET quoted(s, q) == Len(s) >= 2 /\ s[1] = q /\ s[Len(s)] = q
        inner(s) == Strip(SubSeq(s, 2, Len(s) - 1))
        s1 == Strip(p)
        s2 == IF quoted(s1, "\"") THEN inner(s1) ELSE s1
    IN  IF quoted(s2, "'") THEN inner(s2) ELSE s2

(* _selected_include_index, _selected_block_index: the index sel the       *)
(* widget reports, or None when there is none or it lies outside the list  *)
selected_index(sel, list) ==
    {i \in sel : ~(i < 0 \/ i >= Len(list))}

(* list.pop(idx), with idx counted from 0 *)
Pop(list, idx) == SubSeq(list, 1, idx) \o SubSeq(list, idx + 2, Len(list))

(* the user edits one of the two Input widgets (lines 181, 186) *)
Input_changed ==
    /\ TuiReady
    /\ \E w \in {"input_path", "output_path"}, p \in PathTexts :
          status' = [status EXCEPT !.form[w] = p]
    /\ UNCHANGED <<engine, peer, argv>>

(* on_button_pressed, browse_input and browse_output (lines 368-390): a    *)
(* log line without textual_fspicker, else the file dialog is pushed       *)
on_button_pressed_browse ==
    /\ TuiReady
    /\ \E kind \in {"FileOpen", "FileSave"} :
          status' = IF status.form.picker
                    THEN [status EXCEPT !.form.screen = [kind |-> kind, idx |-> 0]]
                    ELSE Logged(<<"File picker missing. Install: pip install textual-fspicker">>)
    /\ UNCHANGED <<engine, peer, argv>>

(* _set_input_path, _set_output_path (lines 302-308), the callbacks of the *)
(* file dialogs: the dialog is dismissed with the path picked or with None *)
set_path ==
    /\ TuiScreen({"FileOpen", "FileSave"})
    /\ \E picked \in {None} \cup {{p} : p \in PathTexts \ {<<>>}} :
          LET w == IF status.form.screen.kind = "FileOpen" THEN "input_path"
                   ELSE "output_path"
              closed == [status EXCEPT !.form.screen = NoScreen]
          IN  status' = IF picked # None
                        THEN [closed EXCEPT !.form[w] = CHOOSE p \in picked : TRUE]
                        ELSE closed
    /\ UNCHANGED <<engine, peer, argv>>

(* on_button_pressed, inc_add and blk_add (lines 392-401, 433-438): the    *)
(* prompt is pushed                                                        *)
on_button_pressed_add ==
    /\ TuiReady
    /\ \E kind \in {"inc_add", "blk_add"} :
          status' = [status EXCEPT !.form.screen = [kind |-> kind, idx |-> 0]]
    /\ UNCHANGED <<engine, peer, argv>>

(* on_button_pressed, inc_edit (lines 403-423): a log line when no item is *)
(* selected, else the prompt is pushed for the item                        *)
on_button_pressed_inc_edit ==
    /\ TuiReady
    /\ \E sel \in Selections :
          LET idx == selected_index(sel, status.form.includes)
          IN  status' =
                IF idx = None THEN Logged(<<"Select an include pattern first.">>)
                ELSE [status EXCEPT
                         !.form.screen = [kind |-> "inc_edit",
                                          idx |-> CHOOSE i \in idx : TRUE]]
    /\ UNCHANGED <<engine, peer, argv>>

(* on_button_pressed, blk_edit (lines 440-462) *)
on_button_pressed_blk_edit ==
    /\ TuiReady
    /\ \E sel \in Selections :
          LET idx == selected_index(sel, status.form.blocks)
          IN  status' =
                IF idx = None THEN Logged(<<"Select a block row first.">>)
                ELSE [status EXCEPT
                         !.form.screen = [kind |-> "blk_edit",
                                          idx |-> CHOOSE i \in idx : TRUE]]
    /\ UNCHANGED <<engine, peer, argv>>

(* on_button_pressed, inc_remove and blk_remove (lines 425-431, 464-470):  *)
(* nothing when no item is selected, else the item is taken off the list   *)
on_button_pressed_remove ==
    /\ TuiReady
    /\ \E w \in {"includes", "blocks"}, sel \in Selections :
          LET idx == selected_index(sel, status.form[w])
          IN  status' =
                IF idx = None THEN status
                ELSE [status EXCEPT !.form[w] = Pop(@, CHOOSE i \in idx : TRUE)]
    /\ UNCHANGED <<engine, peer, argv>>

(* the callback of a prompt, called when it is dismissed with value (None  *)
(* is {}): _inc_add_done and _blk_add_done (lines 521-531), and the        *)
(* functions done of inc_edit and blk_edit (lines 408-412, 447-451)        *)
Dismissed(value) ==
    LET f      == status.form
        closed == [status EXCEPT !.form.screen = NoScreen]
        v      == CHOOSE x \in value : TRUE
    IN  IF value = None THEN closed
        ELSE CASE f.screen.kind = "inc_add" ->
                    [closed EXCEPT !.form.includes = Append(@, v)]
               [] f.screen.kind = "inc_edit" ->
                    [closed EXCEPT !.form.includes[f.screen.idx + 1] = v]
               [] f.screen.kind = "blk_add" ->
                    [closed EXCEPT !.form.blocks = Append(@, v)]
               [] f.screen.kind = "blk_edit" ->
                    [closed EXCEPT !.form.blocks[f.screen.idx + 1] = v]

(* a list of the TUI has room for the item a prompt adds: the lists        *)
(* explored have MaxItems items at most                                    *)
HasRoom ==
    /\ status.form.screen.kind = "inc_add" => Len(status.form.includes) < MaxItems
    /\ status.form.screen.kind = "blk_add" => Len(status.form.blocks) < MaxItems

(* TextPrompt.on_button_pressed (lines 80-89): Cancel dismisses with None; *)
(* OK rings the bell when the text is blank and else dismisses with the    *)
(* text stripped                                                           *)
TextPrompt_on_button_pressed ==
    /\ TuiScreen({"inc_add", "inc_edit"})
    /\ \E button \in {"dlg_cancel", "dlg_ok"}, text \in PromptTexts :
          LET value == Strip(text)
          IN  /\ button = "dlg_ok" /\ value # <<>> => HasRoom
              /\ status' = IF button = "dlg_cancel" THEN Dismissed(None)
                            ELSE IF value = <<>> THEN status
                            ELSE Dismissed({value})
    /\ UNCHANGED <<engine, peer, argv>>

(* BlockPrompt.on_button_pressed (lines 125-144): Cancel dismisses with    *)
(* None; OK rings the bell when the trigger is blank or the count is no    *)
(* integer, and else dismisses with the BlockRule                          *)
BlockPrompt_on_button_pressed ==
    /\ TuiScreen({"blk_add", "blk_edit"})
    /\ \E button \in {"dlg_cancel", "dlg_ok"}, text \in PromptTexts, n \in AfterTexts :
          LET trigger   == Strip(text)
              after_txt == Strip(n)
          IN  /\ button = "dlg_ok" /\ trigger # <<>> /\ IsInt(after_txt) => HasRoom
              /\ status' = IF button = "dlg_cancel" THEN Dismissed(None)
                            ELSE IF trigger = <<>> \/ ~IsInt(after_txt) THEN status
                            ELSE Dismissed({Block(trigger, IntOf(after_txt))})
    /\ UNCHANGED <<engine, peer, argv>>

(* the fields of the dataclass Rules, and those without a default *)
RulesFields == {"include", "blocks", "regex"}
RulesRequired == {"include", "blocks"}

(* the keywords the Run handler of the TUI passes to Rules *)
RunKeywords == {"include", "blocks", "regex", "strip_timestamps"}

(* Rules called with the keywords kw raises TypeError: the generated       *)
(* __init__ takes the fields of the dataclass and no other keyword, and    *)
(* needs those that have no default                                        *)
RulesInitRaises(kw) == ~(kw \subseteq RulesFields) \/ ~(RulesRequired \subseteq kw)

(* the Run handler of the TUI gets as far as starting a thread: it is not  *)
(* running, the paths are filled, the input is there, a list is not empty  *)
(* and the Rules snapshot is built                                         *)
RunAccepted ==
    /\ ~status.running
    /\ clean_path(status.form.input_path) # <<>>
    /\ clean_path(status.form.output_path) # <<>>
    /\ Exists(clean_path(status.form.input_path))
    /\ status.form.includes # <<>> \/ status.form.blocks # <<>>
    /\ ~RulesInitRaises(RunKeywords)

(* on_button_pressed, run_btn (lines 472-511): nothing while running; the  *)
(* two paths are cleaned and written back to their widgets; a log line     *)
(* when a path is missing, the input is not there or both lists are        *)
(* empty; otherwise the Rules snapshot is built, which raises before the   *)
(* event is cleared, the UI switched or a thread started (499-510).  As no *)
(* thread is ever started, _extract_thread has no action here.             *)
on_button_pressed_run ==
    /\ status.front = "tui"
    /\ status.raised = ""
    /\ status.form.screen = NoScreen
    /\ LET in_path  == clean_path(status.form.input_path)
           out_path == clean_path(status.form.output_path)
           cleaned  == [status EXCEPT !.form.input_path = in_path,
                                      !.form.output_path = out_path]
       IN  status' =
             IF status.running THEN status
             ELSE IF in_path = <<>> \/ out_path = <<>>
               THEN [cleaned EXCEPT !.box = <<"Input and Output paths are required.">>]
             ELSE IF ~Exists(in_path)
               THEN [cleaned EXCEPT !.box = <<"Input not found: ">> \o in_path]
             ELSE IF status.form.includes = <<>> /\ status.form.blocks = <<>>
               THEN [cleaned EXCEPT
                        !.box = <<"Add at least one include pattern or block trigger.">>]
             ELSE IF RulesInitRaises(RunKeywords)
               THEN [cleaned EXCEPT !.raised = "TypeError"]
             ELSE [set_running(cleaned, TRUE) EXCEPT
                      !.text = <<"Running...">>,
                      !.box = <<"Started extraction...">>,
                      !.started = status.started + 1]
    /\ IF RunAccepted
       THEN /\ \E c \in SessionCalls, regex \in BOOLEAN, sep \in BOOLEAN :
                  WorkerStarts([rules |-> Rules(status.form.includes, status.form.blocks,
                                                regex),
                                fin |-> c.fin], sep)
            /\ cancel_event' = FALSE
       ELSE UNCHANGED engine
    /\ UNCHANGED <<peer, argv>>

(* on_button_pressed, cancel_btn (lines 513-519): nothing unless running *)
on_button_pressed_cancel ==
    /\ status.front = "tui"
    /\ status.raised = ""
    /\ status.form.screen = NoScreen
    /\ cancel_event' = (cancel_event \/ status.running)
    /\ cancel_at' = IF status.running /\ ~cancel_event THEN <<decided, pc>> ELSE cancel_at
    /\ status' =
          IF status.running
          THEN [status EXCEPT !.text = <<"Cancelling...">>,
                              !.box = <<"Cancel requested.">>,
                              !.cancels = status.cancels \cup {status.started}]
          ELSE status
    /\ UNCHANGED <<args, peer, argv, result, pc, line_no, active, out, cb, decided,
                   error, handles>>

(* the steps of the worker thread: extract_file, then the tail of run *)
WorkerStep ==
    \/ Start
    \/ StartCompileError
    \/ StartInputOpenFails
    \/ StartOutputOpenFails
    \/ Poll
    \/ PollReadFails
    \/ PollCancelled
    \/ ProcessLine
    \/ ProcessLineWriteFails
    \/ EndOfInput
    \/ CloseFails
    \/ ExtractWorker_run

(* the window's thread takes a signal from its queue *)
Delivery == on_progress \/ on_done

(* the steps of the Qt window and its worker *)
NextQt ==
    \/ start
    \/ startRefused
    \/ edit_block
    \/ cancel
    \/ Start
    \/ StartCompileError
    \/ StartInputOpenFails
    \/ StartOutputOpenFails
    \/ Poll
    \/ PollReadFails
    \/ PollCancelled
    \/ ProcessLine
    \/ ProcessLineWriteFails
    \/ EndOfInput
    \/ CloseFails
    \/ ExtractWorker_run
    \/ on_progress
    \/ on_done

(* the steps of the TUI *)
NextTui ==
    \/ Input_changed
    \/ on_button_pressed_browse
    \/ set_path
    \/ on_button_pressed_add
    \/ on_button_pressed_inc_edit
    \/ on_button_pressed_blk_edit
    \/ on_button_pressed_remove
    \/ TextPrompt_on_button_pressed
    \/ BlockPrompt_on_button_pressed
    \/ on_button_pressed_run
    \/ on_button_pressed_cancel

NextSession == NextQt \/ NextTui

SpecSession == InitSession /\ [][NextSession]_vars

(* the Qt window has been opened *)
InitQt == InitSession /\ status.front = "qt"

(* a session of the Qt window: the worker thread is scheduled, and the     *)
(* window's event loop delivers the signals queued to it                   *)
SpecQtLive ==
    InitQt /\ [][NextQt]_vars /\ WF_vars(WorkerStep) /\ WF_vars(Delivery)

(***************************************************************************)
(* qt_gui/log_extract.py: extract_process, the engine of the customtkinter *)
(* front-end, written out a second time in that file.  It takes no cancel  *)
(* event; it counts the lines it keeps (match_count) and passes the count  *)
(* to the progress callback.  It is modelled as a function of its          *)
(* arguments: the record of its local variables after the loop.            *)
(***************************************************************************)

(* the interval of the interim progress calls of extract_process *)
ProcessProgressEvery == 2000

(* _compile *)
compile(patterns, regex) ==
    IF ~regex
    THEN [lits |-> {patterns}, regs |-> None]
    ELSE [lits |-> None, regs |-> {patterns}]

(* a list that is not None and not empty *)
Truthy(l) == \E ps \in l : ps # <<>>

(* _matches of log_extract.py: "if lits", the truth value of the list *)
process_matches(line, lits, regs) ==
    IF Truthy(lits)
    THEN \E ps \in lits : \E j \in 1..Len(ps) : Contains(line, ps[j])
    ELSE \E ps \in regs : \E j \in 1..Len(ps) : RegexSearch(line, ps[j])

(* hits, lines 77-80: "if trig_lit", the truth value of the list *)
process_hits(rs, line) ==
    LET trig == compile([i \in 1..Len(rs.blocks) |-> rs.blocks[i].trigger], rs.regex)
    IN  IF Truthy(trig.lits)
        THEN UNION {{i \in 1..Len(ts) : Contains(line, ts[i])} : ts \in trig.lits}
        ELSE UNION {{i \in 1..Len(ts) : RegexSearch(line, ts[i])} : ts \in trig.regs}

(* variant of process_counters: every line lowers the countdowns of the    *)
(* rules it does not hit                                                   *)
process_counters_per_rule(rs, counters, hits) ==
    [i \in 1..Len(counters) |->
        IF i \in hits THEN max(counters[i], rs.blocks[i].after)
        ELSE max(0, counters[i] - 1)]

(* active_counters after one line, lines 82-96 *)
process_counters(rs, counters, hits) ==
    IF rs.blocks = <<>> THEN counters
    ELSE IF hits # {}
    THEN [i \in 1..Len(counters) |->
            IF i \in hits THEN max(counters[i], rs.blocks[i].after) ELSE counters[i]]
    ELSE IF \E i \in 1..Len(counters) : counters[i] > 0
    THEN [i \in 1..Len(counters) |-> max(0, counters[i] - 1)]
    ELSE counters

(* sep, line 89 *)
ProcessSeparator(n) ==
    [kind |-> "sep", text |-> <<"\n>>> BLOCK TRIGGER @ L", ToString(n), " >>>\n">>,
     line_no |-> n, matched |-> 0]

(* the body of the loop, lines 66-105, on the local variables st *)
process_line(rs, separators, st, line) ==
    LET line_count == st.line_count + 1
        inc        == compile(rs.include, rs.regex)
        included   == rs.include # <<>> /\ process_matches(line, inc.lits, inc.regs)
        hits       == IF rs.blocks = <<>> THEN {} ELSE process_hits(rs, line)
        triggered  == hits # {}
        window     == /\ rs.blocks # <<>>
                      /\ ~triggered
                      /\ \E i \in 1..Len(st.active_counters) : st.active_counters[i] > 0
        keep       == included \/ triggered \/ window
        match_count == IF keep THEN st.match_count + 1 ELSE st.match_count
    IN  [active_counters |-> process_counters(rs, st.active_counters, hits),
         line_count      |-> line_count,
         match_count     |-> match_count,
         out             |-> st.out
                             \o (IF triggered /\ separators
                                 THEN <<ProcessSeparator(line_count)>> ELSE <<>>)
                             \o (IF keep THEN <<Verbatim(line)>> ELSE <<>>),
         cb              |-> IF line_count % ProcessProgressEvery = 0
                             THEN Append(st.cb, [scanned |-> line_count,
                                                 matched |-> match_count,
                                                 done |-> FALSE])
                             ELSE st.cb]

RECURSIVE process_loop(_, _, _, _, _)
(* the loop of line 65 from line k of the input on *)
process_loop(rs, separators, f, k, st) ==
    IF k > NumLines(f) THEN st
    ELSE process_loop(rs, separators, f, k + 1,
                      process_line(rs, separators, st, LineAt(f, k)))

(* extract_process with a progress callback, for patterns that compile:    *)
(* the local variables at the end, the writes to fout and the callbacks    *)
extract_process(rs, separators, f) ==
    LET st == process_loop(rs, separators, f, 1,
                  [active_counters |-> [i \in 1..Len(rs.blocks) |-> 0],
                   line_count |-> 0, match_count |-> 0, out |-> <<>>, cb |-> <<>>])
    IN  [st EXCEPT !.cb = Append(st.cb, [scanned |-> st.line_count,
                                         matched |-> st.match_count,
                                         done |-> TRUE])]

(***************************************************************************)
(* C31  what a front-end reports against what the engine did               *)
(***************************************************************************)

(* the window has shown the outcome of the run started last *)
RunReported ==
    /\ status.front = "qt"
    /\ status.started > 0
    /\ status.emitted = status.started
    /\ status.queue = <<>>

(* C31: under every interleaving of Cancel with the worker thread, a run   *)
(* is reported as Cancelled only if the engine returned with input lines   *)
(* undecided, having seen the flag at a poll, and a run whose engine       *)
(* decided every line of the input is reported as Completed.               *)
C31_CancelledOnlyIfStoppedEarly ==
    RunReported =>
        /\ status.text[1] = "Cancelled" => pc = "done" /\ decided < NumLines(fin)
        /\ pc = "done" /\ decided = NumLines(fin) => status.text[1] = "Completed"

(***************************************************************************)
(* C32  one run at a time in the Qt window                                 *)
(***************************************************************************)

(* workers whose call of extract_file has not returned *)
Executing == status.started - status.returned

(* C32: in the Qt window the Run button is enabled exactly when the Cancel *)
(* button is disabled; a run starts only from a state with Run enabled and *)
(* no worker executing extract_file; at most one worker executes           *)
(* extract_file at any time, and it does so only while Run is disabled.    *)
C32_OneRunAtATime ==
    /\ [](status.front = "qt" =>
            /\ status.run_btn <=> ~status.cancel_btn
            /\ Executing \in {0, 1}
            /\ Executing = 1 => ~status.run_btn
            /\ pc \in {"start", "poll", "body"} => Executing = 1)
    /\ [][status.front = "qt" /\ status'.started # status.started =>
            /\ status.run_btn
            /\ Executing = 0
            /\ status.queue = <<>>
            /\ status'.started = status.started + 1]_vars

(* the second run of a session is in a loop body, the first one reported *)
C32_Witness ==
    /\ status.front = "qt"
    /\ status.started = 2
    /\ status.returned = 1
    /\ pc = "body"
    /\ ~status.run_btn
    /\ status.cancel_btn

(***************************************************************************)
(* C33  every run of the Qt window comes back to idle                      *)
(***************************************************************************)

(* the Qt window is idle *)
QtIdle == status.front = "qt" /\ status.run_btn /\ ~status.cancel_btn

(* C33: every run started from the Qt window emits one done signal and no  *)
(* more, and the window comes back to idle with the signal of that run     *)
(* delivered, whether the engine returned or raised.                       *)
C33_RunEndsIdleWithOneSignal ==
    /\ \A n \in 1..MaxRuns :
          [](status.front = "qt" /\ status.started = n /\ ~status.run_btn =>
                <>(QtIdle /\ status.emitted = n /\ status.queue = <<>>))
    /\ [](status.emitted <= status.started)
    /\ [](QtIdle => status.emitted = status.started /\ status.queue = <<>>)
    /\ [](Len(status.queue) <= 1)
    /\ [][status'.emitted \in {status.emitted, status.emitted + 1}]_vars

(* the window is idle again after a run that completed and a run that      *)
(* failed on a pattern that does not compile                               *)
C33_Witness ==
    /\ QtIdle
    /\ status.started = 2
    /\ status.emitted = 2
    /\ pc = "raised"
    /\ error \notin StreamErrors
    /\ status.text = <<"Error">>
    /\ status.cancels = {}

(***************************************************************************)
(* C34  the cancellation flag belongs to the run that is active            *)
(***************************************************************************)

(* C34: a run starts with the flag clear; the flag is set only by a Cancel *)
(* pressed while a run is active, which is recorded for that run; and the  *)
(* engine returns with input lines undecided only in a run during which    *)
(* Cancel was pressed, so a Cancel of an earlier run never stops a later   *)
(* one.                                                                    *)
C34_FlagClearedPerRun ==
    /\ [][status'.started # status.started =>
            /\ ~cancel_event'
            /\ pc' = "start"
            /\ status'.cancels = status.cancels]_vars
    /\ [][cancel_event' /\ ~cancel_event =>
            /\ status.cancel_btn
            /\ status.started > 0
            /\ status'.started = status.started
            /\ status.started \in status'.cancels]_vars
    /\ [](pc = "done" /\ decided < NumLines(fin) => status.started \in status.cancels)
    /\ [](cancel_event => status.started \in status.cancels)

(* Cancel was pressed during the first run of the session and not during   *)
(* the second, which has decided every line of its input and is reported   *)
(* as completed                                                            *)
C34_Witness ==
    /\ status.front = "qt"
    /\ status.started = 2
    /\ status.cancels = {1}
    /\ pc = "done"
    /\ NumLines(fin) > 0
    /\ decided = NumLines(fin)
    /\ status.emitted = 2
    /\ status.queue = <<>>
    /\ status.text[1] = "Completed"

(***************************************************************************)
(* C35  the Run button of the TUI                                          *)
(***************************************************************************)

(* both paths are filled, the input file is there and a list is not empty *)
FormComplete ==
    /\ clean_path(status.form.input_path) # <<>>
    /\ clean_path(status.form.output_path) # <<>>
    /\ Exists(clean_path(status.form.input_path))
    /\ status.form.includes # <<>> \/ status.form.blocks # <<>>

(* C35: in the TUI a press of Run while idle, with a complete form, starts *)
(* one extraction thread and puts the UI into the running state (Run       *)
(* disabled, Cancel enabled), raising nothing; a press of Run while        *)
(* running changes nothing.                                                *)
C35_RunStartsOneThread ==
    [][on_button_pressed_run =>
          /\ ~status.running /\ FormComplete =>
                /\ status'.started = status.started + 1
                /\ status'.running
                /\ ~status'.run_btn
                /\ status'.cancel_btn
                /\ status'.raised = ""
          /\ status.running => status' = status]_vars

(***************************************************************************)
(* C36  extract_process against extract_file                               *)
(***************************************************************************)

IsLine(w) == w.kind = "line"

(* the input lines among a sequence of writes, in order *)
LinesOf(o) == SelectSeq(o, IsLine)

(* C36: when extract_file has returned with the cancel event never set,    *)
(* extract_process on the same rules and input has kept the same input     *)
(* lines in the same order, and as many separators; its match_count is the *)
(* number of lines it kept and is at most line_count; its last callback is *)
(* the final one and reports the number of lines of the input.             *)
C36_ProcessKeepsSameLines ==
    pc = "done" /\ ~cancel_event =>
        LET p == extract_process(rules, include_separators, fin)
        IN  /\ LinesOf(p.out) = LinesOf(out)
            /\ Separators(p.out) = Separators(out)
            /\ p.match_count = Len(LinesOf(p.out))
            /\ p.match_count <= p.line_count
            /\ p.line_count = NumLines(fin)
            /\ p.cb[Len(p.cb)] = [scanned |-> NumLines(fin),
                                  matched |-> p.match_count, done |-> TRUE]
            /\ \A j \in 1..(Len(p.cb) - 1) : ~p.cb[j].done

(* a run over two rules, one of which keeps a window open across a line    *)
(* that hits the other, has returned: some lines kept, some dropped        *)
C36_Witness ==
    /\ pc = "done"
    /\ ~cancel_event
    /\ Len(rules.blocks) = 2
    /\ \E k \in 1..NumLines(fin) : \E i \in RulesHitAt(k) :
          k > 1 /\ \E j \in BlockIdx : j # i /\ j \in RulesHitAt(k - 1) /\ AfterOf(j) > 0
    /\ Len(LinesOf(out)) >= 2
    /\ Len(LinesOf(out)) < NumLines(fin)
    /\ extract_process(rules, include_separators, fin).match_count = Len(LinesOf(out))

====
